---- MODULE Spec2Model ----
(***************************************************************************)
(* User-center service of XiaoHangProject: accounts, JWT sessions and the  *)
(* role gate.  The state is the three Prisma tables (user, userSession,    *)
(* userLoginLog), the wall clock, the JWT_EXPIRES_IN setting and the       *)
(* tokens clients hold; there is one action per route handler, each        *)
(* calling the UserModel method it calls in the source.                    *)
(***************************************************************************)
EXTENDS Integers, Sequences, FiniteSets, TLC

VARIABLES
    users,        \* prisma.user: id -> row
    nextId,       \* autoincrement of prisma.user.id
    sessions,     \* prisma.userSession: set of rows
    loginLogs,    \* prisma.userLoginLog: sequence of rows (append only)
    now,          \* wall clock, in seconds (Date.now() / 1000)
    expiresIn,    \* process.env.JWT_EXPIRES_IN, <<number, unit>>
    issued,       \* tokens handed to clients by successful logins
    resp,         \* the response to the last request
    loggedOut,    \* tokens T for which POST /auth/logout with T has completed
    failedOnce,   \* tokens that authJWT has refused once (session, expiry or user reasons)
    pending,      \* requests suspended at an await between their check and their write
    lastBody,     \* req.body of the last PUT /users/:id
    lastAuth,     \* Authorization header of the last request to a protected route
    lastPath      \* path of the last request, below the router's mount point

vars == <<users, nextId, sessions, loginLogs, now, expiresIn, issued, resp,
          loggedOut, failedOnce, pending, lastBody,
          lastAuth, lastPath>>

----------------------------------------------------------------------------
(* Bounds of the model *)

MaxUsers == 2        \* rows prisma.user may hold, the seeded administrator included
MaxSessions == 2     \* rows prisma.userSession may hold
MaxLogs == 2         \* rows prisma.userLoginLog may hold
MaxProducts == 2     \* entries of one user's products list
MaxPending == 2      \* requests of one run that write the user table

(* Program constants *)

MinPasswordLength == 6
SecondsPerMinute == 60
SecondsPerHour == 3600
SecondsPerDay == 86400

(* Values *)

Null == "null"               \* JS null / a NULL column
Undef == "undefined"         \* a field absent from a request body
NoTime == -1                 \* a NULL DateTime column

Roles == {"user", "admin", "superadmin"}
Statuses == {"active", "inactive", "blocked"}

Usernames == {"alice", "bob"}
Emails == {"alice@x.com", "bob@x.com"}
Passwords == {"secret1", "secret2"}
ShortPassword == "short"

(* The instants at which the clock is read: 0 and each of the lifetimes     *)
(* one unit of JWT_EXPIRES_IN can denote.                                  *)
Instants == {0, SecondsPerMinute, SecondsPerHour, SecondsPerDay}

ExpiresInSettings == { <<1, "h">>, <<1, "m">>, <<1, "d">> }
DefaultExpiresIn == <<24, "h">>

(* Messages of the source, by the failure they report *)
MsgNoToken == "no token supplied"                    \* '未提供认证令牌'
MsgBadToken == "invalid token"                       \* '无效的认证令牌'
MsgInvalidJWT == "invalid JWT"                       \* '无效的JWT令牌'
MsgJWTExpired == "JWT expired"                       \* 'JWT令牌已过期'
MsgUserGoneOrDisabled == "user missing or disabled"  \* '用户不存在或已被禁用'
MsgSessionInvalid == "session expired or invalid"    \* '会话已过期或无效'
MsgForbidden == "insufficient permission"            \* '权限不足'
MsgUsernameTaken == "username exists"                \* '用户名已存在'
MsgEmailTaken == "email registered"                  \* '邮箱已被注册'
MsgBadCredentials == "username or password wrong"    \* '用户名或密码错误'
MsgDisabled == "user disabled"                       \* '用户已被禁用'
MsgUserNotFound == "user not found"                  \* '用户不存在'
MsgProductLinked == "product already linked"         \* '产品已关联'
MsgProductNotLinked == "product link not found"      \* '产品关联不存在'
MsgRequired == "required fields missing"
MsgPasswordShort == "password too short"             \* '密码长度不能少于6位'
MsgUniqueConstraint == "unique constraint failed"    \* Prisma P2002
MsgStoreFailure == "store failure"
MsgReferenceError == "ReferenceError: user is not defined"
MsgOK == "ok"

----------------------------------------------------------------------------
(* bcrypt *)

(* Faulty variant: every password is taken to match *)
bcryptCompareAny(password, hash) == TRUE

bcryptHash(password) == <<"bcrypt", password>>

bcryptCompare(password, hash) == hash = bcryptHash(password)

----------------------------------------------------------------------------
(* jsonwebtoken *)

NoToken == [userId |-> 0, username |-> "", role |-> "", iat |-> 0, exp |-> 0,
            sig |-> "none"]

UnitSeconds(unit) ==
    CASE unit = "m" -> SecondsPerMinute
      [] unit = "h" -> SecondsPerHour
      [] unit = "d" -> SecondsPerDay

(* jwt.sign({userId, username, role}, JWT_SECRET, {expiresIn}): the token  *)
(* is a function of the payload, the second of issue and the setting.      *)
jwtSign(id, user, t) ==
    [userId |-> id, username |-> user.username, role |-> user.role,
     iat |-> t, exp |-> t + expiresIn[1] * UnitSeconds(expiresIn[2]),
     sig |-> "good"]

(* jwt.verify(token, JWT_SECRET): the error name, or "ok" *)
jwtVerify(token, t) ==
    IF token.sig # "good" THEN "JsonWebTokenError"
    ELSE IF t >= token.exp THEN "TokenExpiredError"
    ELSE "ok"

(* Faulty variant: the hours are never added to expiresAt *)
sessionExpiresAtNow(t) == t

(* expiresAt of the session row: the first number of the setting, as hours *)
sessionExpiresAt(t) == t + expiresIn[1] * SecondsPerHour

----------------------------------------------------------------------------
(* Responses *)

NoProduct == <<"undefined", "">>

NoReq == [ident |-> "", email |-> "", pw |-> "", cur |-> "", id |-> 0,
          pid |-> NoProduct]

(* at: the instant the response was written *)
Reply(op, http, code, message) ==
    [op |-> op, http |-> http, code |-> code, message |-> message,
     token |-> NoToken, uid |-> 0, req |-> NoReq, at |-> now]

----------------------------------------------------------------------------
(* The store *)

DB == [users |-> users, nextId |-> nextId, sessions |-> sessions,
       loginLogs |-> loginLogs]

FirstOf(S) == CHOOSE i \in S : \A j \in S : i <= j

(* findFirst({ where: { OR: [{username}, {email}] } }) : the ids matching *)
MatchUsernameOrEmail(db, username, email) ==
    { i \in DOMAIN db.users :
        db.users[i].username = username \/ db.users[i].email = email }

(* Faulty variant: the user table has no unique index *)
NoUserUniqueIndex(db, id, username, email) == FALSE

(* The unique indexes of the user table on username and on email *)
UserUniqueViolation(db, id, username, email) ==
    \E j \in DOMAIN db.users :
        j # id /\ (db.users[j].username = username \/ db.users[j].email = email)

(* The unique index of the userSession table on token *)
SessionUniqueViolation(db, token) ==
    \E s \in db.sessions : s.token = token

----------------------------------------------------------------------------
(* middleware/auth.jwt.js *)

(* The Authorization header: absent, or a string.  kind tells the strings  *)
(* apart: "bearer" is 'Bearer ' followed by a token, "empty" is 'Bearer '  *)
(* alone, "other" is a string without the prefix, which replace() leaves   *)
(* as it is and jwt.verify rejects as malformed.                           *)
NoHeader == [kind |-> "missing", token |-> NoToken]

MalformedToken == [NoToken EXCEPT !.sig = "malformed"]

ForgedToken(t) == [t EXCEPT !.sig = "forged"]

BearerHeader(t) == [kind |-> "bearer", token |-> t]

OtherHeader == [kind |-> "other", token |-> MalformedToken]

EmptyBearerHeader == [kind |-> "empty", token |-> NoToken]

Identity(id) ==
    [id |-> id, username |-> users[id].username, email |-> users[id].email,
     nickname |-> users[id].nickname, role |-> users[id].role,
     status |-> users[id].status]

NoIdentity ==
    [id |-> 0, username |-> "", email |-> "", nickname |-> "", role |-> "",
     status |-> ""]

(* Faulty variant: the userSession table is not consulted *)
authJWTNoSessionLookup(token) ==
    LET v == jwtVerify(token, now) IN
    IF v = "JsonWebTokenError"
    THEN [http |-> 401, message |-> MsgInvalidJWT, user |-> NoIdentity]
    ELSE IF v = "TokenExpiredError"
    THEN [http |-> 401, message |-> MsgJWTExpired, user |-> NoIdentity]
    ELSE IF token.userId \notin DOMAIN users
            \/ users[token.userId].status # "active"
    THEN [http |-> 401, message |-> MsgUserGoneOrDisabled, user |-> NoIdentity]
    ELSE [http |-> 0, message |-> MsgOK, user |-> Identity(token.userId)]

(* Faulty variant: req.user carries the role that was signed into the token *)
authJWTTokenRole(token) ==
    LET v == jwtVerify(token, now) IN
    IF v = "JsonWebTokenError"
    THEN [http |-> 401, message |-> MsgInvalidJWT, user |-> NoIdentity]
    ELSE IF v = "TokenExpiredError"
    THEN [http |-> 401, message |-> MsgJWTExpired, user |-> NoIdentity]
    ELSE IF token.userId \notin DOMAIN users
            \/ users[token.userId].status # "active"
    THEN [http |-> 401, message |-> MsgUserGoneOrDisabled, user |-> NoIdentity]
    ELSE IF ~ \E s \in sessions :
                /\ s.userId = token.userId
                /\ s.token = token
                /\ s.expiresAt > now
    THEN [http |-> 401, message |-> MsgSessionInvalid, user |-> NoIdentity]
    ELSE [http |-> 0, message |-> MsgOK,
          user |-> [Identity(token.userId) EXCEPT !.role = token.role]]

(* authJWT from the token on: http = 0 stands for next() *)
authJWT(token) ==
    LET v == jwtVerify(token, now) IN
    IF v = "JsonWebTokenError"
    THEN [http |-> 401, message |-> MsgInvalidJWT, user |-> NoIdentity]
    ELSE IF v = "TokenExpiredError"
    THEN [http |-> 401, message |-> MsgJWTExpired, user |-> NoIdentity]
    ELSE IF token.userId \notin DOMAIN users
            \/ users[token.userId].status # "active"
    THEN [http |-> 401, message |-> MsgUserGoneOrDisabled, user |-> NoIdentity]
    ELSE IF ~ \E s \in sessions :
                /\ s.userId = token.userId
                /\ s.token = token
                /\ s.expiresAt > now
    THEN [http |-> 401, message |-> MsgSessionInvalid, user |-> NoIdentity]
    ELSE [http |-> 0, message |-> MsgOK, user |-> Identity(token.userId)]

(* authJWT from the header on *)
authJWTHeader(header) ==
    IF header.kind = "missing"
    THEN [http |-> 401, message |-> MsgNoToken, user |-> NoIdentity]
    ELSE IF header.kind = "empty"
    THEN [http |-> 401, message |-> MsgBadToken, user |-> NoIdentity]
    ELSE authJWT(header.token)

authorizeRoles(user, roles) == user.id # 0 /\ user.role \in roles

----------------------------------------------------------------------------
(* models/user.model.js *)

NewUser(username, email, password, nickname, role, status, disabledRemark) ==
    [username |-> username, email |-> email,
     passwordHash |-> bcryptHash(password),
     nickname |-> IF nickname \in {Undef, Null, ""} THEN username ELSE nickname,
     role |-> IF role \in {Undef, Null, ""} THEN "user" ELSE role,
     status |-> IF status \in {Undef, Null, ""} THEN "active" ELSE status,
     disabledRemark |-> IF disabledRemark = Undef THEN Null ELSE disabledRemark,
     lastLoginAt |-> NoTime,
     products |-> <<>>]

(* createUser / adminCreateUser, the check of lines 168-185 / 516-533 *)
createUserCheck(db, username, email) ==
    LET m == MatchUsernameOrEmail(db, username, email) IN
    IF m = {} THEN MsgOK
    ELSE LET e == db.users[FirstOf(m)] IN
         IF e.username = username THEN MsgUsernameTaken
         ELSE IF e.email = email THEN MsgEmailTaken
         ELSE MsgOK

(* prisma.user.create *)
prismaUserCreate(db, row) ==
    IF UserUniqueViolation(db, 0, row.username, row.email)
    THEN [db |-> db, message |-> MsgUniqueConstraint, id |-> 0]
    ELSE [db |-> [db EXCEPT !.users = @ @@ (db.nextId :> row),
                            !.nextId = @ + 1],
          message |-> MsgOK, id |-> db.nextId]

createUser(db, username, email, password, nickname) ==
    LET c == createUserCheck(db, username, email) IN
    IF c # MsgOK THEN [db |-> db, message |-> c, id |-> 0]
    ELSE prismaUserCreate(db,
            NewUser(username, email, password, nickname, Undef, Undef, Undef))

adminCreateUser(db, username, email, password, nickname, role, status, remark) ==
    LET c == createUserCheck(db, username, email) IN
    IF c # MsgOK THEN [db |-> db, message |-> c, id |-> 0]
    ELSE prismaUserCreate(db,
            NewUser(username, email, password, nickname, role, status, remark))

(* saveLoginLog: a failed write is logged and swallowed *)
saveLoginLog(db, userId, username, success, message, logOk) ==
    IF logOk
    THEN [db EXCEPT !.loginLogs =
            Append(@, [userId |-> userId, username |-> username,
                       success |-> success, message |-> message])]
    ELSE db

LoginFailure(db, message) ==
    [db |-> db, ok |-> FALSE, message |-> message, token |-> NoToken, uid |-> 0]

(* Faulty variant: the status of the user is never looked at *)
loginNoStatusCheck(db, username, password, t, logOk) ==
    LET m == MatchUsernameOrEmail(db, username, username) IN
    IF m = {}
    THEN LoginFailure(saveLoginLog(db, 0, username, FALSE, MsgUserNotFound, logOk),
                      MsgBadCredentials)
    ELSE
    LET id == FirstOf(m)
        user == db.users[id]
    IN
    IF ~bcryptCompare(password, user.passwordHash)
    THEN LoginFailure(saveLoginLog(db, id, username, FALSE, "wrong password", logOk),
                      MsgBadCredentials)
    ELSE
    LET token == jwtSign(id, user, t) IN
    IF SessionUniqueViolation(db, token)
    THEN LoginFailure(db, MsgUniqueConstraint)
    ELSE
    LET db1 == [db EXCEPT
                  !.sessions = @ \cup {[userId |-> id, token |-> token,
                                        expiresAt |-> sessionExpiresAt(t)]},
                  !.users[id].lastLoginAt = t]
    IN [db |-> saveLoginLog(db1, id, username, TRUE, MsgOK, logOk),
        ok |-> TRUE, message |-> MsgOK, token |-> token, uid |-> id]

(* Faulty variant: saveLoginLog has no try/catch, a failed audit write     *)
(* throws out of login                                                     *)
loginAuditThrows(db, username, password, t, logOk) ==
    LET m == MatchUsernameOrEmail(db, username, username) IN
    IF m = {}
    THEN LoginFailure(saveLoginLog(db, 0, username, FALSE, MsgUserNotFound, logOk),
                      IF logOk THEN MsgBadCredentials ELSE MsgStoreFailure)
    ELSE
    LET id == FirstOf(m)
        user == db.users[id]
    IN
    IF user.status # "active"
    THEN LoginFailure(saveLoginLog(db, id, username, FALSE, MsgDisabled, logOk),
                      IF logOk THEN MsgDisabled ELSE MsgStoreFailure)
    ELSE IF ~bcryptCompare(password, user.passwordHash)
    THEN LoginFailure(saveLoginLog(db, id, username, FALSE, "wrong password", logOk),
                      IF logOk THEN MsgBadCredentials ELSE MsgStoreFailure)
    ELSE
    LET token == jwtSign(id, user, t) IN
    IF SessionUniqueViolation(db, token)
    THEN LoginFailure(db, MsgUniqueConstraint)
    ELSE
    LET db1 == [db EXCEPT
                  !.sessions = @ \cup {[userId |-> id, token |-> token,
                                        expiresAt |-> sessionExpiresAt(t)]},
                  !.users[id].lastLoginAt = t]
    IN IF logOk
       THEN [db |-> saveLoginLog(db1, id, username, TRUE, MsgOK, logOk),
             ok |-> TRUE, message |-> MsgOK, token |-> token, uid |-> id]
       ELSE LoginFailure(db1, MsgStoreFailure)

login(db, username, password, t, logOk) ==
    LET m == MatchUsernameOrEmail(db, username, username) IN
    IF m = {}
    THEN LoginFailure(saveLoginLog(db, 0, username, FALSE, MsgUserNotFound, logOk),
                      MsgBadCredentials)
    ELSE
    LET id == FirstOf(m)
        user == db.users[id]
    IN
    IF user.status # "active"
    THEN LoginFailure(saveLoginLog(db, id, username, FALSE, MsgDisabled, logOk),
                      MsgDisabled)
    ELSE IF ~bcryptCompare(password, user.passwordHash)
    THEN LoginFailure(saveLoginLog(db, id, username, FALSE, "wrong password", logOk),
                      MsgBadCredentials)
    ELSE
    LET token == jwtSign(id, user, t) IN
    IF SessionUniqueViolation(db, token)
    THEN LoginFailure(db, MsgUniqueConstraint)
    ELSE
    LET db1 == [db EXCEPT
                  !.sessions = @ \cup {[userId |-> id, token |-> token,
                                        expiresAt |-> sessionExpiresAt(t)]},
                  !.users[id].lastLoginAt = t]
    IN [db |-> saveLoginLog(db1, id, username, TRUE, MsgOK, logOk),
        ok |-> TRUE, message |-> MsgOK, token |-> token, uid |-> id]

(* Faulty variant: logout always filters on the token, also when none is given *)
logoutTokenOnly(db, userId, token) ==
    [db EXCEPT !.sessions =
        { s \in @ : ~(s.userId = userId /\ s.token = token) }]

(* Faulty variant: the token is not part of the filter, a single logout    *)
(* ends every session of the user                                          *)
logoutIgnoresToken(db, userId, token) ==
    [db EXCEPT !.sessions = { s \in @ : s.userId # userId }]

(* Faulty variant: a revocation that finds no row for the token falls back *)
(* to deleting every session of the user.                                  *)
logoutOrAll(db, userId, token) ==
    IF \E s \in db.sessions : s.userId = userId /\ s.token = token
    THEN [db EXCEPT !.sessions =
            { s \in @ : ~(s.userId = userId /\ s.token = token) }]
    ELSE [db EXCEPT !.sessions = { s \in @ : s.userId # userId }]

(* logout(userId, token = null) *)
logout(db, userId, token) ==
    IF token # NoToken
    THEN [db EXCEPT !.sessions =
            { s \in @ : ~(s.userId = userId /\ s.token = token) }]
    ELSE [db EXCEPT !.sessions = { s \in @ : s.userId # userId }]

(* getUserInfo: the row, or the throw of '用户不存在' *)
getUserInfo(db, id) == id \in DOMAIN db.users

(* Faulty variant: only undefined counts as missing *)
TruthyUnlessUndefined(v) == v # Undef

Truthy(v) == v \notin {Undef, Null, ""}

NoUpdate ==
    [username |-> Undef, email |-> Undef, nickname |-> Undef, role |-> Undef,
     status |-> Undef, disabledRemark |-> Undef, password |-> Undef]

(* One member of the OR list of updateUser: a condition on an undefined    *)
(* value is dropped by Prisma and so matches every row.                    *)
WhereEquals(value, column) == value = Undef \/ column = value

(* updateUser, the check of lines 360-380 *)
updateUserCheck(db, userId, data) ==
    IF ~(Truthy(data.username) \/ Truthy(data.email)) THEN MsgOK
    ELSE
    LET m == { j \in DOMAIN db.users :
                 /\ j # userId
                 /\ \/ WhereEquals(data.username, db.users[j].username)
                    \/ WhereEquals(data.email, db.users[j].email) }
    IN IF m = {} THEN MsgOK
       ELSE LET e == db.users[FirstOf(m)] IN
            IF e.username = data.username THEN MsgUsernameTaken
            ELSE IF e.email = data.email THEN MsgEmailTaken
            ELSE MsgOK

Pick(value, old) == IF value = Undef THEN old ELSE value

(* prisma.user.update({ where: { id }, data }) *)
prismaUserUpdate(db, userId, data) ==
    IF userId \notin DOMAIN db.users
    THEN [db |-> db, message |-> "record to update not found"]
    ELSE
    LET old == db.users[userId]
        row == [old EXCEPT
                  !.username = Pick(data.username, @),
                  !.email = Pick(data.email, @),
                  !.nickname = Pick(data.nickname, @),
                  !.role = Pick(data.role, @),
                  !.status = Pick(data.status, @),
                  !.disabledRemark = Pick(data.disabledRemark, @),
                  !.passwordHash = IF Truthy(data.password)
                                   THEN bcryptHash(data.password) ELSE @]
    IN IF UserUniqueViolation(db, userId, row.username, row.email)
       THEN [db |-> db, message |-> MsgUniqueConstraint]
       ELSE [db |-> [db EXCEPT !.users[userId] = row], message |-> MsgOK]

(* Faulty variant: the password is deleted from the update and its hash is never set *)
updateUserDropsPassword(db, userId, data) ==
    LET c == updateUserCheck(db, userId, data) IN
    IF c # MsgOK THEN [db |-> db, message |-> c]
    ELSE prismaUserUpdate(db, userId, [data EXCEPT !.password = Undef])

updateUser(db, userId, data) ==
    LET c == updateUserCheck(db, userId, data) IN
    IF c # MsgOK THEN [db |-> db, message |-> c]
    ELSE prismaUserUpdate(db, userId, data)

(* Faulty variant: three awaited deletes instead of one $transaction; a    *)
(* failure after the first leaves the sessions deleted and the user behind *)
deleteUserNoTransaction(db, userId, storeFails) ==
    IF userId \notin DOMAIN db.users
    THEN [db |-> db, message |-> MsgUserNotFound]
    ELSE IF storeFails
    THEN [db |-> [db EXCEPT !.sessions = { s \in @ : s.userId # userId }],
          message |-> MsgStoreFailure]
    ELSE [db |-> [db EXCEPT
                    !.sessions = { s \in @ : s.userId # userId },
                    !.loginLogs = SelectSeq(@, LAMBDA l : l.userId # userId),
                    !.users = [i \in DOMAIN @ \ {userId} |-> @[i]]],
          message |-> MsgOK]

(* deleteUser: the three deletes run in one $transaction *)
deleteUser(db, userId, storeFails) ==
    IF userId \notin DOMAIN db.users
    THEN [db |-> db, message |-> MsgUserNotFound]
    ELSE IF storeFails
    THEN [db |-> db, message |-> MsgStoreFailure]
    ELSE [db |-> [db EXCEPT
                    !.sessions = { s \in @ : s.userId # userId },
                    !.loginLogs = SelectSeq(@, LAMBDA l : l.userId # userId),
                    !.users = [i \in DOMAIN @ \ {userId} |-> @[i]]],
          message |-> MsgOK]

(* A product id is a JavaScript value: <<typeof, text>>.  === holds when   *)
(* both the type and the text agree.                                       *)
ProductIdsOf(products) == { products[i].id : i \in 1..Len(products) }

(* Faulty variant: the list is not searched for the id before the push *)
addUserProductUnchecked(db, userId, productInfo, t) ==
    IF userId \notin DOMAIN db.users
    THEN [db |-> db, message |-> MsgUserNotFound]
    ELSE [db |-> [db EXCEPT !.users[userId].products =
                    Append(@, [id |-> productInfo.id, name |-> productInfo.name,
                               joinedAt |-> t])],
          message |-> MsgOK]

(* addUserProduct(userId, productInfo) *)
addUserProduct(db, userId, productInfo, t) ==
    IF userId \notin DOMAIN db.users
    THEN [db |-> db, message |-> MsgUserNotFound]
    ELSE IF productInfo.id \in ProductIdsOf(db.users[userId].products)
    THEN [db |-> db, message |-> MsgProductLinked]
    ELSE [db |-> [db EXCEPT !.users[userId].products =
                    Append(@, [id |-> productInfo.id, name |-> productInfo.name,
                               joinedAt |-> t])],
          message |-> MsgOK]

(* removeUserProduct(userId, productId) *)
removeUserProduct(db, userId, productId) ==
    IF userId \notin DOMAIN db.users
    THEN [db |-> db, message |-> MsgUserNotFound]
    ELSE
    LET products == db.users[userId].products
        filteredProducts == SelectSeq(products, LAMBDA q : q.id # productId)
    IN
    IF Len(filteredProducts) = Len(products)
    THEN [db |-> db, message |-> MsgProductNotLinked]
    ELSE [db |-> [db EXCEPT !.users[userId].products = filteredProducts],
          message |-> MsgOK]

----------------------------------------------------------------------------
(* Route handlers *)

SetDB(db) ==
    /\ users' = db.users
    /\ nextId' = db.nextId
    /\ sessions' = db.sessions
    /\ loginLogs' = db.loginLogs

(* The caps that keep the tables of the model finite *)
Fits(db) ==
    /\ db.nextId <= MaxUsers + 1
    /\ Cardinality(db.sessions) <= MaxSessions
    /\ Len(db.loginLogs) <= MaxLogs

UNCHANGED_DB == UNCHANGED <<users, nextId, sessions, loginLogs>>

SessionFailures == {MsgJWTExpired, MsgUserGoneOrDisabled, MsgSessionInvalid}

(* The 401 of authJWT: { message }, the handler does not run *)
AuthDenied(op, token, a) ==
    /\ resp' = Reply(op, a.http, 0, a.message)
    /\ UNCHANGED_DB
    /\ UNCHANGED <<now, expiresIn, issued, pending>>

(* POST /auth/register *)
Register(username, email, password, nickname) ==
    /\ IF ~Truthy(username) \/ ~Truthy(email) \/ ~Truthy(password)
       THEN resp' = Reply("register", 400, 400, MsgRequired) /\ UNCHANGED_DB
       ELSE IF Len(password) < MinPasswordLength
       THEN resp' = Reply("register", 400, 400, MsgPasswordShort) /\ UNCHANGED_DB
       ELSE
       LET r == createUser(DB, username, email, password, nickname) IN
       /\ Fits(r.db)
       /\ SetDB(r.db)
       /\ resp' = IF r.message = MsgOK
                  THEN [Reply("register", 201, 0, MsgOK) EXCEPT
                          !.uid = r.id,
                          !.req = [NoReq EXCEPT !.ident = username, !.email = email]]
                  \* catch (error) { res.status(400).json(user) }: user is not
                  \* in scope, the handler throws and no response is written
                  ELSE [Reply("register", 0, 0, MsgReferenceError) EXCEPT
                          !.req = [NoReq EXCEPT !.ident = username, !.email = email]]
    /\ UNCHANGED <<now, expiresIn, issued, pending>>

(* POST /auth/login *)
Login(username, password, logOk) ==
    /\ IF ~Truthy(username) \/ ~Truthy(password)
       THEN /\ resp' = Reply("login", 400, 400, MsgRequired)
            /\ UNCHANGED_DB
            /\ UNCHANGED issued
       ELSE
       LET r == login(DB, username, password, now, logOk) IN
       /\ Fits(r.db)
       /\ SetDB(r.db)
       /\ issued' = IF r.ok THEN issued \cup {r.token} ELSE issued
       /\ resp' = [Reply("login", 200, IF r.ok THEN 0 ELSE 401, r.message) EXCEPT
                     !.token = r.token, !.uid = r.uid,
                     !.req = [NoReq EXCEPT !.ident = username, !.pw = password]]
    /\ UNCHANGED <<now, expiresIn, pending>>

(* POST /auth/logout *)
Logout(token) ==
    LET a == authJWT(token) IN
    IF a.http # 0 THEN AuthDenied("logout", token, a)
    ELSE /\ SetDB(logout(DB, a.user.id, token))
         /\ resp' = [Reply("logout", 200, 200, MsgOK) EXCEPT
                       !.token = token, !.uid = a.user.id]
         /\ UNCHANGED <<now, expiresIn, issued, pending>>

(* POST /auth/logout-all *)
LogoutAll(token) ==
    LET a == authJWT(token) IN
    IF a.http # 0 THEN AuthDenied("logout-all", token, a)
    ELSE /\ SetDB(logout(DB, a.user.id, NoToken))
         /\ resp' = [Reply("logout-all", 200, 200, MsgOK) EXCEPT
                       !.token = token, !.uid = a.user.id]
         /\ UNCHANGED <<now, expiresIn, issued, pending>>

(* GET /auth/me *)
GetMe(token) ==
    LET a == authJWT(token) IN
    IF a.http # 0 THEN AuthDenied("me", token, a)
    ELSE /\ resp' = [Reply("me", 200, 0, MsgOK) EXCEPT
                       !.token = token, !.uid = a.user.id,
                       !.req = [NoReq EXCEPT !.ident = a.user.username]]
         /\ UNCHANGED_DB
         /\ UNCHANGED <<now, expiresIn, issued, pending>>

(* Time passes *)
Tick(t) ==
    /\ t \in Instants
    /\ t > now
    /\ now' = t
    /\ UNCHANGED_DB
    /\ UNCHANGED <<expiresIn, issued, resp, pending>>

(* The 403 of authorizeRoles: { message }, the handler does not run *)
RoleDenied(op) ==
    /\ resp' = Reply(op, 403, 0, MsgForbidden)
    /\ UNCHANGED_DB
    /\ UNCHANGED <<now, expiresIn, issued, pending>>

(* A handler's reply that leaves the store as it is *)
Refuse(op, http, code, message, id) ==
    /\ resp' = [Reply(op, http, code, message) EXCEPT !.req.id = id]
    /\ UNCHANGED_DB

(* Faulty variant: the target's role is not looked at *)
adminOnNobody(caller, targetUser) == FALSE

(* req.user.role === 'admin' and targetUser.role === 'superadmin' *)
adminOnSuperadmin(caller, targetUser) ==
    caller.role = "admin" /\ targetUser.role = "superadmin"

(* Faulty variant: the ids are compared as number and string *)
isNeverCurrentUser(caller, userId) == FALSE

(* req.user.id === userId *)
isCurrentUser(caller, userId) == caller.id = userId

(* ... and that names the caller authJWT admitted *)
RefuseAs(op, http, code, message, id, uid) ==
    /\ resp' = [Reply(op, http, code, message) EXCEPT !.req.id = id, !.uid = uid]
    /\ UNCHANGED_DB

(* POST /users *)
AdminCreateUser(token, username, email, password, role, status, remark) ==
    LET a == authJWT(token) IN
    IF a.http # 0 THEN AuthDenied("create-user", token, a)
    ELSE IF ~authorizeRoles(a.user, {"admin", "superadmin"})
    THEN RoleDenied("create-user")
    ELSE
    /\ IF ~Truthy(username) \/ ~Truthy(email) \/ ~Truthy(password)
       THEN Refuse("create-user", 200, 400, MsgRequired, 0)
       ELSE IF Len(password) < MinPasswordLength
       THEN Refuse("create-user", 200, 400, MsgPasswordShort, 0)
       ELSE
       LET r == adminCreateUser(DB, username, email, password, Undef,
                                role, status, remark) IN
       /\ Fits(r.db)
       /\ SetDB(r.db)
       /\ resp' = [Reply("create-user", 200,
                         IF r.message = MsgOK THEN 0 ELSE 400, r.message) EXCEPT
                     !.uid = r.id,
                     !.req = [NoReq EXCEPT !.ident = username, !.email = email]]
    /\ UNCHANGED <<now, expiresIn, issued, pending>>

(* Faulty variant: a remark in the row is never cleared *)
buildUpdateDataKeepsRemark(body, currentUser) == body

(* PUT /users/:id: updateData, the defined fields of req.body, with the    *)
(* remark set to null when the status sent is not blocked, no remark is    *)
(* sent and the row has one                                                *)
buildUpdateData(body, currentUser) ==
    IF /\ body.status # "blocked"
       /\ body.disabledRemark = Undef
       /\ Truthy(currentUser.disabledRemark)
    THEN [body EXCEPT !.disabledRemark = Null]
    ELSE body

(* PUT /users/:id *)
AdminUpdateUser(token, userId, body) ==
    LET a == authJWT(token) IN
    IF a.http # 0 THEN AuthDenied("update-user", token, a)
    ELSE IF ~authorizeRoles(a.user, {"admin", "superadmin"})
    THEN /\ RefuseAs("update-user", 403, 0, MsgForbidden, userId, a.user.id)
         /\ UNCHANGED <<now, expiresIn, issued, pending>>
    ELSE
    /\ IF a.user.role = "admin" /\ ~getUserInfo(DB, userId)
       THEN RefuseAs("update-user", 404, 404, MsgUserNotFound, userId, a.user.id)
       ELSE IF adminOnSuperadmin(a.user, users[userId])
       THEN RefuseAs("update-user", 403, 403, MsgForbidden, userId, a.user.id)
       ELSE IF body.status = "blocked" /\ ~Truthy(body.disabledRemark)
       THEN RefuseAs("update-user", 400, 400, "remark required", userId, a.user.id)
       ELSE IF body.status # "blocked" /\ body.disabledRemark = Undef
               /\ ~getUserInfo(DB, userId)
       THEN RefuseAs("update-user", 404, 404, MsgUserNotFound, userId, a.user.id)
       ELSE
       LET updateData == buildUpdateData(body, users[userId]) IN
       IF updateData = NoUpdate
       THEN RefuseAs("update-user", 400, 400, "nothing to update", userId, a.user.id)
       ELSE
       LET r == updateUser(DB, userId, updateData) IN
       /\ SetDB(r.db)
       /\ resp' = [Reply("update-user",
                         IF r.message = MsgOK THEN 200 ELSE 400,
                         IF r.message = MsgOK THEN 0 ELSE 400, r.message) EXCEPT
                     !.uid = a.user.id, !.req.id = userId]
    /\ UNCHANGED <<now, expiresIn, issued, pending>>

(* DELETE /users/:id *)
DeleteUser(token, userId, storeFails) ==
    LET a == authJWT(token) IN
    IF a.http # 0 THEN AuthDenied("delete-user", token, a)
    ELSE IF ~authorizeRoles(a.user, {"admin", "superadmin"})
    THEN /\ RefuseAs("delete-user", 403, 0, MsgForbidden, userId, a.user.id)
         /\ UNCHANGED <<now, expiresIn, issued, pending>>
    ELSE
    /\ IF isCurrentUser(a.user, userId)
       THEN RefuseAs("delete-user", 400, 400, "cannot delete yourself", userId, a.user.id)
       ELSE IF a.user.role = "admin" /\ ~getUserInfo(DB, userId)
       THEN RefuseAs("delete-user", 404, 404, MsgUserNotFound, userId, a.user.id)
       ELSE IF adminOnSuperadmin(a.user, users[userId])
       THEN RefuseAs("delete-user", 403, 403, MsgForbidden, userId, a.user.id)
       ELSE
       LET r == deleteUser(DB, userId, storeFails) IN
       /\ SetDB(r.db)
       /\ resp' = [Reply("delete-user",
                         CASE r.message = MsgOK -> 200
                           [] r.message = MsgUserNotFound -> 404
                           [] OTHER -> 500,
                         CASE r.message = MsgOK -> 200
                           [] r.message = MsgUserNotFound -> 404
                           [] OTHER -> 500,
                         r.message) EXCEPT
                     !.uid = a.user.id, !.req.id = userId]
    /\ UNCHANGED <<now, expiresIn, issued, pending>>

(* PUT /users/change-password, the handler of lines 639-695 *)
ChangePassword(token, currentPassword, newPassword, logOk) ==
    LET a == authJWT(token) IN
    IF a.http # 0 THEN AuthDenied("change-password", token, a)
    ELSE
    /\ IF ~Truthy(currentPassword) \/ ~Truthy(newPassword)
       THEN Refuse("change-password", 400, 400, MsgRequired, 0) /\ UNCHANGED issued
       ELSE IF Len(newPassword) < MinPasswordLength
       THEN /\ resp' = [Reply("change-password", 400, 400, MsgPasswordShort) EXCEPT
                          !.uid = a.user.id,
                          !.req = [NoReq EXCEPT !.pw = newPassword,
                                                !.cur = currentPassword]]
            /\ UNCHANGED_DB
            /\ UNCHANGED issued
       ELSE
       LET l == login(DB, users[a.user.id].username, currentPassword, now, logOk)
       IN
       IF ~l.ok
       THEN /\ Fits(l.db)
            /\ SetDB(l.db)
            /\ resp' = [Reply("change-password", 400, 400,
                              "current password wrong") EXCEPT
                          !.uid = a.user.id,
                          !.req = [NoReq EXCEPT !.pw = newPassword,
                                                !.cur = currentPassword]]
            /\ UNCHANGED issued
       ELSE
       LET u == updateUser(l.db, a.user.id,
                           [NoUpdate EXCEPT !.password = newPassword])
           d == logout(u.db, a.user.id, NoToken)
       IN
       /\ Fits(d)
       /\ SetDB(d)
       /\ resp' = [Reply("change-password", 200, 200, MsgOK) EXCEPT
                     !.uid = a.user.id,
                     !.req = [NoReq EXCEPT !.pw = newPassword,
                                           !.cur = currentPassword]]
       /\ UNCHANGED issued
    /\ UNCHANGED <<now, expiresIn, pending>>

(* The reply of the two product routes to what UserModel returned or threw *)
ProductReply(op, message, userId, productId, uid) ==
    [Reply(op,
           CASE message = MsgOK -> 200
             [] message = MsgUserNotFound -> 404
             [] OTHER -> 400,
           CASE message = MsgOK -> 200
             [] message = MsgUserNotFound -> 404
             [] OTHER -> 400,
           message)
       EXCEPT !.uid = uid, !.req.id = userId, !.req.pid = productId]

(* POST /users/:userId/products *)
AddProduct(token, userId, productInfo) ==
    LET a == authJWT(token) IN
    IF a.http # 0 THEN AuthDenied("add-product", token, a)
    ELSE
    /\ IF ~authorizeRoles(a.user, {"admin", "user"})
       THEN RefuseAs("add-product", 403, 0, MsgForbidden, userId, a.user.id)
       ELSE IF a.user.role # "admin" /\ a.user.id # userId
       THEN RefuseAs("add-product", 403, 403, MsgForbidden, userId, a.user.id)
       ELSE
       LET r == addUserProduct(DB, userId, productInfo, now) IN
       /\ \A i \in DOMAIN r.db.users : Len(r.db.users[i].products) <= MaxProducts
       /\ SetDB(r.db)
       /\ resp' = ProductReply("add-product", r.message, userId, productInfo.id,
                               a.user.id)
    /\ UNCHANGED <<now, expiresIn, issued, pending>>

(* DELETE /users/:userId/products/:productId: the id is a path segment, a  *)
(* string                                                                  *)
RemoveProduct(token, userId, productText) ==
    LET a == authJWT(token)
        productId == <<"string", productText>>
    IN
    IF a.http # 0 THEN AuthDenied("remove-product", token, a)
    ELSE
    /\ IF ~authorizeRoles(a.user, {"admin", "user"})
       THEN RefuseAs("remove-product", 403, 0, MsgForbidden, userId, a.user.id)
       ELSE IF a.user.role # "admin" /\ a.user.id # userId
       THEN RefuseAs("remove-product", 403, 403, MsgForbidden, userId, a.user.id)
       ELSE
       LET r == removeUserProduct(DB, userId, productId) IN
       /\ SetDB(r.db)
       /\ resp' = ProductReply("remove-product", r.message, userId, productId,
                               a.user.id)
    /\ UNCHANGED <<now, expiresIn, issued, pending>>

(* GET /auth/me and POST /auth/logout from the Authorization header on *)
GetMeAuth(header) ==
    IF header.kind \in {"missing", "empty"}
    THEN AuthDenied("me", header.token, authJWTHeader(header))
    ELSE GetMe(header.token)

LogoutAuth(header) ==
    IF header.kind \in {"missing", "empty"}
    THEN AuthDenied("logout", header.token, authJWTHeader(header))
    ELSE Logout(header.token)

----------------------------------------------------------------------------
(* The initial store: empty but for the seeded administrator *)

SeedUser ==
    [NewUser("root", "root@x.com", "secret0", Undef, "superadmin", Undef, Undef)
       EXCEPT !.nickname = "root"]

InitStore ==
    /\ users = (1 :> SeedUser)
    /\ nextId = 2
    /\ sessions = {}
    /\ loginLogs = <<>>
    /\ now = 0
    /\ issued = {}
    /\ resp = Reply("none", 0, 0, MsgOK)
    /\ loggedOut = {}
    /\ failedOnce = {}
    /\ pending = {}
    /\ lastBody = NoUpdate
    /\ lastAuth = NoHeader
    /\ lastPath = ""

Init == InitStore /\ expiresIn \in ExpiresInSettings

(* The store under the documented setting JWT_EXPIRES_IN="24h" *)
InitDefault == InitStore /\ expiresIn = DefaultExpiresIn

----------------------------------------------------------------------------
(* Observers: what has happened to each token so far.  They record the    *)
(* response just written and constrain no program variable.               *)

NoObs == UNCHANGED <<loggedOut, failedOnce, lastBody, lastAuth, lastPath>>

ObsLogout(token) ==
    /\ loggedOut' = IF resp'.op = "logout" /\ resp'.http = 200
                    THEN loggedOut \cup {token} ELSE loggedOut
    /\ UNCHANGED <<failedOnce, lastBody, lastAuth, lastPath>>

ObsRefused(token) ==
    /\ failedOnce' = IF resp'.http = 401 /\ resp'.message \in SessionFailures
                     THEN failedOnce \cup {token} ELSE failedOnce
    /\ UNCHANGED <<loggedOut, lastBody, lastAuth, lastPath>>

ObsBody(body) ==
    /\ lastBody' = body
    /\ UNCHANGED <<loggedOut, failedOnce, lastAuth, lastPath>>

ObsAuth(header) ==
    /\ lastAuth' = header
    /\ UNCHANGED <<loggedOut, failedOnce, lastBody, lastPath>>

ObsPath(path) ==
    /\ lastPath' = path
    /\ UNCHANGED <<loggedOut, failedOnce, lastBody, lastAuth>>

----------------------------------------------------------------------------
(* The requests clients send *)

TargetIds == 2..MaxUsers

StatusBodies ==
    { [NoUpdate EXCEPT !.status = "active"],
      [NoUpdate EXCEPT !.status = "inactive"],
      [NoUpdate EXCEPT !.status = "blocked", !.disabledRemark = "spam"] }

Credentials == { <<"alice", "secret1">>, <<"root", "secret0">> }

(* Sessions: login, validation, logout, expiry and the owner's status *)
Next ==
    \/ Register("alice", "alice@x.com", "secret1", Undef) /\ NoObs
    \/ \E c \in Credentials : Login(c[1], c[2], TRUE) /\ NoObs
    \/ \E t \in issued : Logout(t) /\ NoObs
    \/ \E t \in issued : LogoutAll(t) /\ NoObs
    \/ \E t \in issued : GetMe(t) /\ NoObs
    \/ \E t \in issued, id \in TargetIds, b \in StatusBodies :
          AdminUpdateUser(t, id, b) /\ NoObs
    \/ \E t \in Instants : Tick(t) /\ NoObs

Spec == Init /\ [][Next]_vars

----------------------------------------------------------------------------
(* Properties of the sessions *)

Admitted(token) == authJWT(token).http = 0

TokensOf(userId) == { t \in issued : t.userId = userId }

(* The last response is the one just written: no time has passed since *)
Fresh == resp.at = now

LoginSucceeded == resp.op = "login" /\ resp.http = 200 /\ resp.code = 0 /\ Fresh

LogoutAllDone == resp.op = "logout-all" /\ resp.http = 200 /\ Fresh

(* C2, as stated: once logout-all has answered 200, authJWT refuses every  *)
(* token issued to the caller before it with "session expired or invalid". *)
C2_LogoutAllRevokes ==
    LogoutAllDone =>
        \A t \in TokensOf(resp.uid) : authJWT(t).message = MsgSessionInvalid

(* C2, amended: once logout-all has answered 200, authJWT refuses every    *)
(* token issued to the caller before it: with "session expired or         *)
(* invalid" while the token's own exp lies ahead, with "JWT expired" once  *)
(* it has passed.                                                          *)
C2_LogoutAllRefusesEveryToken ==
    LogoutAllDone =>
        \A t \in TokensOf(resp.uid) :
            /\ authJWT(t).http = 401
            /\ authJWT(t).message =
                 IF now >= t.exp THEN MsgJWTExpired ELSE MsgSessionInvalid

C2_Witness ==
    /\ LogoutAllDone
    /\ \E t1, t2 \in TokensOf(resp.uid) : t1 # t2 /\ now < t1.exp /\ now < t2.exp

(* C4: authJWT admits an issued (well-signed) token exactly when a session *)
(* row holds that token, the clock is before the row's expiresAt and the   *)
(* owner's status is active.                                               *)
C4_SessionValidity ==
    \A t \in issued :
        Admitted(t) <=>
            \E s \in sessions :
                /\ s.token = t
                /\ now < s.expiresAt
                /\ s.userId \in DOMAIN users
                /\ users[s.userId].status = "active"

(* C5: right after a successful login, at the instant of issue, authJWT    *)
(* admits the returned token with the id and the role of the user that     *)
(* logged in.                                                              *)
C5_IssueThenValidate ==
    LoginSucceeded =>
        LET a == authJWT(resp.token) IN
        /\ a.http = 0
        /\ a.user.id = resp.uid
        /\ a.user.role = users[resp.uid].role
        /\ a.user.role = resp.token.role

C5_Witness ==
    /\ LoginSucceeded
    /\ resp.uid = 2
    /\ now > 0

----------------------------------------------------------------------------
(* Single logout, with the tokens whose logout has completed recorded *)

NextLogout ==
    \/ Register("alice", "alice@x.com", "secret1", Undef) /\ NoObs
    \/ \E c \in Credentials : Login(c[1], c[2], TRUE) /\ NoObs
    \/ \E t \in issued : Logout(t) /\ ObsLogout(t)
    \/ \E t \in issued : GetMe(t) /\ NoObs
    \/ \E t \in Instants : Tick(t) /\ NoObs

SpecLogout == Init /\ [][NextLogout]_vars

(* C1: GET /auth/me with an admitted token returns the username of the     *)
(* token's user, and once POST /auth/logout with token T has answered 200, *)
(* authJWT never admits T again.                                           *)
C1_LogoutIsFinal ==
    /\ (resp.op = "me" /\ resp.http = 200) => resp.req.ident = resp.token.username
    /\ \A t \in loggedOut : ~Admitted(t)

----------------------------------------------------------------------------
(* Validation under status changes, with the refused tokens recorded *)

NextTerminal ==
    \/ Register("alice", "alice@x.com", "secret1", Undef) /\ NoObs
    \/ \E c \in Credentials : Login(c[1], c[2], TRUE) /\ NoObs
    \/ \E t \in issued : GetMe(t) /\ ObsRefused(t)
    \/ \E t \in issued, id \in TargetIds, b \in StatusBodies :
          AdminUpdateUser(t, id, b) /\ NoObs
    \/ \E t \in Instants : Tick(t) /\ NoObs

SpecTerminal == Init /\ [][NextTerminal]_vars

(* C10: a token that authJWT has refused once because its session was     *)
(* missing or expired or its owner was not active is never admitted again. *)
C10_InvalidIsTerminal ==
    \A t \in failedOnce : ~Admitted(t)

----------------------------------------------------------------------------
(* Password changes *)

PasswordCredentials == { <<"alice", "secret1">>, <<"alice", "secret2">> }

NextPassword ==
    \/ Register("alice", "alice@x.com", "secret1", Undef) /\ NoObs
    \/ \E c \in PasswordCredentials, ok \in BOOLEAN : Login(c[1], c[2], ok) /\ NoObs
    \/ \E t \in issued, cur \in {"secret1", "secret2"},
          new \in {"secret2", ShortPassword} :
          ChangePassword(t, cur, new, TRUE) /\ NoObs
    \/ \E t \in issued : GetMe(t) /\ NoObs
    \/ \E t \in Instants : Tick(t) /\ NoObs

SpecPassword == Init /\ [][NextPassword]_vars

ChangePasswordDone == resp.op = "change-password" /\ resp.http = 200 /\ Fresh

FreshLoginSucceeds(userId, password) ==
    LET r == login(DB, users[userId].username, password, now, TRUE) IN
    r.ok /\ r.uid = userId

(* C3, as stated: once change-password has answered 200, authJWT refuses   *)
(* every token issued to the caller before it with "session expired or    *)
(* invalid", and a login with the new password succeeds.                   *)
C3_ChangePasswordRevokes ==
    ChangePasswordDone =>
        /\ \A t \in TokensOf(resp.uid) : authJWT(t).message = MsgSessionInvalid
        /\ FreshLoginSucceeds(resp.uid, resp.req.pw)

(* C3, amended: once change-password has answered 200, authJWT refuses     *)
(* every token issued to the caller before it, with "session expired or    *)
(* invalid" while the token's own exp lies ahead and with "JWT expired"    *)
(* once it has passed, and a login with the new password succeeds.         *)
C3_ChangePasswordRefusesEveryToken ==
    ChangePasswordDone =>
        /\ \A t \in TokensOf(resp.uid) :
              /\ authJWT(t).http = 401
              /\ authJWT(t).message =
                   IF now >= t.exp THEN MsgJWTExpired ELSE MsgSessionInvalid
        /\ FreshLoginSucceeds(resp.uid, resp.req.pw)

C3_Witness ==
    /\ ChangePasswordDone
    /\ resp.uid = 2
    /\ \E t \in TokensOf(2) : now < t.exp
    /\ users[2].passwordHash = bcryptHash("secret2")

----------------------------------------------------------------------------
(* Accounts: registration, login failures, status changes and deletion *)

AccountCredentials ==
    Credentials \cup { <<"alice", "wrong00">>, <<"bob", "wrong00">>,
                       <<"alice@x.com", "secret1">> }

NextAccounts ==
    \/ \E u \in Usernames, e \in Emails : Register(u, e, "secret1", Undef) /\ NoObs
    \/ \E c \in AccountCredentials : Login(c[1], c[2], TRUE) /\ NoObs
    \/ \E t \in issued, id \in TargetIds, b \in StatusBodies :
          AdminUpdateUser(t, id, b) /\ NoObs
    \/ \E t \in issued, id \in 1..(MaxUsers + 1), f \in BOOLEAN :
          DeleteUser(t, id, f) /\ NoObs

SpecAccounts == InitDefault /\ [][NextAccounts]_vars

(* The same operations on one registered user, for the properties of       *)
(* deletion and of the status check                                        *)
StatusCredentials ==
    { <<"root", "secret0">>, <<"alice", "secret1">>, <<"alice", "wrong00">> }

NextStatus ==
    \/ Register("alice", "alice@x.com", "secret1", Undef) /\ NoObs
    \/ \E c \in StatusCredentials : Login(c[1], c[2], TRUE) /\ NoObs
    \/ \E t \in issued, id \in TargetIds, b \in StatusBodies :
          AdminUpdateUser(t, id, b) /\ NoObs
    \/ \E t \in issued, id \in 1..(MaxUsers + 1), f \in BOOLEAN :
          DeleteUser(t, id, f) /\ NoObs

SpecStatus == InitDefault /\ [][NextStatus]_vars

(* The identifier of the last login request resolves to no user whose      *)
(* password is the one supplied                                            *)
PasswordDoesNotMatch ==
    \A i \in MatchUsernameOrEmail(DB, resp.req.ident, resp.req.ident) :
        ~bcryptCompare(resp.req.pw, users[i].passwordHash)

(* C6: a login that fails with a password that matches no user of that     *)
(* name is answered with the one "username or password wrong" message,     *)
(* whether the name resolves to no user or to a user of any status.        *)
C6_NoEnumeration ==
    (resp.op = "login" /\ Fresh /\ resp.code = 401 /\ PasswordDoesNotMatch)
        => resp.message = MsgBadCredentials

(* The last request was a well-formed registration that created no user    *)
(* and carried a username or an email that a user holds                    *)
RegisterCollided ==
    /\ resp.op = "register" /\ Fresh
    /\ resp.uid = 0
    /\ resp.message \notin {MsgRequired, MsgPasswordShort}
    /\ \E i \in DOMAIN users :
          users[i].username = resp.req.ident \/ users[i].email = resp.req.email

(* C8: a registration whose username or email is taken is answered 400     *)
(* with the message naming the colliding field.                            *)
C8_DuplicateReported ==
    RegisterCollided =>
        /\ resp.http = 400
        /\ resp.message \in {MsgUsernameTaken, MsgEmailTaken}
        /\ resp.message = MsgUsernameTaken =>
              \E i \in DOMAIN users : users[i].username = resp.req.ident
        /\ resp.message = MsgEmailTaken =>
              \E i \in DOMAIN users : users[i].email = resp.req.email

LogsOf(logs, userId) == SelectSeq(logs, LAMBDA l : l.userId = userId)

(* C9: DELETE /users/:id is all or nothing.  A step that answers 200 takes *)
(* an existing user and leaves no row, no session and no login log of it,  *)
(* the rows of the other users untouched; a step that answers anything     *)
(* else (404 for an absent id, 500 for a failed transaction, a refusal)    *)
(* leaves the three tables as they were; an absent id is answered 404      *)
(* whenever the handler gets as far as deleteUser.                         *)
C9_DeleteAllOrNothing ==
    [][ (resp'.op = "delete-user" /\ resp'.at = now') =>
          LET id == resp'.req.id IN
          IF resp'.http = 200
          THEN /\ id \in DOMAIN users
               /\ DOMAIN users' = DOMAIN users \ {id}
               /\ \A i \in DOMAIN users' : users'[i] = users[i]
               /\ sessions' = { s \in sessions : s.userId # id }
               /\ loginLogs' = SelectSeq(loginLogs, LAMBDA l : l.userId # id)
               /\ LogsOf(loginLogs', id) = <<>>
          ELSE /\ UNCHANGED <<users, nextId, sessions, loginLogs>>
               /\ resp'.http = 500 => id \in DOMAIN users
               /\ resp'.http \notin {400, 401, 403} =>
                     ((resp'.http = 404) <=> (id \notin DOMAIN users))
      ]_vars

C9_Witness ==
    /\ resp.op = "delete-user" /\ resp.http = 200 /\ Fresh
    /\ resp.req.id \notin DOMAIN users
    /\ \E t \in issued : t.userId = resp.req.id
    /\ loginLogs # <<>>

----------------------------------------------------------------------------
(* Concurrent writers of the user table.  A create or an update suspends   *)
(* at its await between the findFirst that checks for a taken name and     *)
(* the write; other requests run in between.  pending keeps each request   *)
(* of the run: "checked" while suspended, "done" with what UserModel       *)
(* returned or threw.                                                      *)

FreeSlot == FirstOf((1..MaxPending) \ { r.slot : r \in pending })

HasFreeSlot == Cardinality(pending) < MaxPending

Request(op, id, username, email, state, result) ==
    [slot |-> FreeSlot, op |-> op, id |-> id, username |-> username,
     email |-> email, password |-> "", token |-> NoToken,
     state |-> state, result |-> result]

Finish(r, result) ==
    pending' = (pending \ {r}) \cup {[r EXCEPT !.state = "done", !.result = result]}

ConcFrame == UNCHANGED <<now, expiresIn, issued>> /\ NoObs

(* POST /auth/register up to the findFirst of createUser *)
RegisterBegin(username, email) ==
    /\ HasFreeSlot
    /\ LET c == createUserCheck(DB, username, email) IN
       IF c = MsgOK
       THEN /\ pending' = pending \cup
                 {Request("register", 0, username, email, "checked", MsgOK)}
            /\ UNCHANGED resp
       ELSE /\ pending' = pending \cup
                 {Request("register", 0, username, email, "done", c)}
            /\ resp' = [Reply("register", 0, 0, MsgReferenceError) EXCEPT
                          !.req = [NoReq EXCEPT !.ident = username, !.email = email]]
    /\ UNCHANGED_DB
    /\ ConcFrame

(* ... and from prisma.user.create on *)
RegisterEnd(r) ==
    /\ r.op = "register" /\ r.state = "checked"
    /\ LET c == prismaUserCreate(DB,
                    NewUser(r.username, r.email, "secret1", Undef, Undef, Undef, Undef))
       IN /\ SetDB(c.db)
          /\ Finish(r, c.message)
          /\ resp' = IF c.message = MsgOK
                     THEN [Reply("register", 201, 0, MsgOK) EXCEPT !.uid = c.id]
                     ELSE Reply("register", 0, 0, MsgReferenceError)
    /\ ConcFrame

(* POST /users up to the findFirst of adminCreateUser *)
AdminCreateBegin(token, username, email) ==
    /\ HasFreeSlot
    /\ authJWT(token).http = 0
    /\ authorizeRoles(authJWT(token).user, {"admin", "superadmin"})
    /\ LET c == createUserCheck(DB, username, email) IN
       IF c = MsgOK
       THEN /\ pending' = pending \cup
                 {Request("create-user", 0, username, email, "checked", MsgOK)}
            /\ UNCHANGED resp
       ELSE /\ pending' = pending \cup
                 {Request("create-user", 0, username, email, "done", c)}
            /\ resp' = Reply("create-user", 200, 400, c)
    /\ UNCHANGED_DB
    /\ ConcFrame

AdminCreateEnd(r) ==
    /\ r.op = "create-user" /\ r.state = "checked"
    /\ LET c == prismaUserCreate(DB,
                    NewUser(r.username, r.email, "secret1", Undef, Undef, Undef, Undef))
       IN /\ SetDB(c.db)
          /\ Finish(r, c.message)
          /\ resp' = [Reply("create-user", 200,
                            IF c.message = MsgOK THEN 0 ELSE 400, c.message)
                        EXCEPT !.uid = c.id]
    /\ ConcFrame

RenameData(r) == [NoUpdate EXCEPT !.username = r.username, !.email = r.email]

(* PUT /users/:id up to the findFirst of updateUser *)
AdminUpdateBegin(token, userId, username, email) ==
    /\ HasFreeSlot
    /\ authJWT(token).http = 0
    /\ authorizeRoles(authJWT(token).user, {"admin", "superadmin"})
    /\ userId \in DOMAIN users
    /\ <<username, email>> # <<Undef, Undef>>
    /\ LET q == Request("update-user", userId, username, email, "checked", MsgOK)
           c == updateUserCheck(DB, userId, RenameData(q))
       IN
       IF c = MsgOK
       THEN pending' = pending \cup {q} /\ UNCHANGED resp
       ELSE /\ pending' = pending \cup {[q EXCEPT !.state = "done", !.result = c]}
            /\ resp' = [Reply("update-user", 400, 400, c) EXCEPT !.req.id = userId]
    /\ UNCHANGED_DB
    /\ ConcFrame

AdminUpdateEnd(r) ==
    /\ r.op = "update-user" /\ r.state = "checked"
    /\ LET c == prismaUserUpdate(DB, r.id, RenameData(r))
       IN /\ SetDB(c.db)
          /\ Finish(r, c.message)
          /\ resp' = [Reply("update-user",
                            IF c.message = MsgOK THEN 200 ELSE 400,
                            IF c.message = MsgOK THEN 0 ELSE 400, c.message)
                        EXCEPT !.req.id = r.id]
    /\ ConcFrame

NextConc ==
    \/ \E u \in Usernames, e \in Emails : RegisterBegin(u, e)
    \/ \E r \in pending : RegisterEnd(r)
    \/ Login("root", "secret0", TRUE) /\ pending' = pending /\ NoObs
    \/ \E t \in issued, u \in Usernames, e \in Emails : AdminCreateBegin(t, u, e)
    \/ \E r \in pending : AdminCreateEnd(r)
    \/ \E t \in issued, id \in 2..(MaxUsers + 1), u \in Usernames \cup {Undef},
          e \in Emails \cup {Undef} : AdminUpdateBegin(t, id, u, e)
    \/ \E r \in pending : AdminUpdateEnd(r)

SpecConc == InitDefault /\ [][NextConc]_vars

(* A user other than row id holds the username or the email *)
Taken(id, username, email) ==
    \E j \in DOMAIN users :
        j # id /\ (users[j].username = username \/ users[j].email = email)

DuplicateKeyMessages == {MsgUsernameTaken, MsgEmailTaken, MsgUniqueConstraint}

UsersUnique ==
    \A i, j \in DOMAIN users :
        i # j => /\ users[i].username # users[j].username
                 /\ users[i].email # users[j].email

----------------------------------------------------------------------------
(* PUT /users/change-password step by step.  The handler awaits           *)
(* UserModel.login, then updateUser, then logout; other requests are       *)
(* served between the first await and the rest.                            *)

(* ... up to the return of UserModel.login *)
ChangePasswordBegin(token, currentPassword, newPassword, logOk) ==
    LET a == authJWT(token) IN
    IF \/ a.http # 0
       \/ ~Truthy(currentPassword) \/ ~Truthy(newPassword)
       \/ Len(newPassword) < MinPasswordLength
    THEN ChangePassword(token, currentPassword, newPassword, logOk)
    ELSE
    LET l == login(DB, users[a.user.id].username, currentPassword, now, logOk) IN
    IF ~l.ok
    THEN ChangePassword(token, currentPassword, newPassword, logOk)
    ELSE /\ HasFreeSlot
         /\ Fits(l.db)
         /\ SetDB(l.db)
         /\ pending' = pending \cup
              {[Request("change-password", a.user.id, "", "", "checked", MsgOK)
                  EXCEPT !.password = newPassword, !.token = l.token]}
         /\ UNCHANGED <<now, expiresIn, issued, resp>>

(* ... and from UserModel.updateUser on *)
ChangePasswordEnd(r) ==
    /\ r.op = "change-password" /\ r.state = "checked"
    /\ LET u == updateUser(DB, r.id, [NoUpdate EXCEPT !.password = r.password])
           d == logout(u.db, r.id, NoToken)
       IN
       IF u.message # MsgOK
       THEN /\ SetDB(u.db)
            /\ Finish(r, u.message)
            /\ resp' = [Reply("change-password", 400, 400, u.message) EXCEPT
                          !.uid = r.id, !.req = [NoReq EXCEPT !.pw = r.password]]
       ELSE /\ SetDB(d)
            /\ Finish(r, MsgOK)
            /\ resp' = [Reply("change-password", 200, 200, MsgOK) EXCEPT
                          !.uid = r.id, !.req = [NoReq EXCEPT !.pw = r.password]]
    /\ UNCHANGED <<now, expiresIn, issued>>

NextChange ==
    \/ Register("alice", "alice@x.com", "secret1", Undef) /\ NoObs
    \/ \E c \in PasswordCredentials : Login(c[1], c[2], TRUE) /\ NoObs
    \/ \E t \in issued, new \in {"secret2", ShortPassword} :
          ChangePasswordBegin(t, "secret1", new, TRUE) /\ NoObs
    \/ \E r \in pending : ChangePasswordEnd(r) /\ NoObs
    \/ \E t \in issued : GetMe(t) /\ NoObs
    \/ \E t \in Instants : Tick(t) /\ NoObs

SpecChange == InitDefault /\ [][NextChange]_vars

(* C11: change-password verifies the current password without creating a   *)
(* session: while a call is in progress and after it, the userSession      *)
(* table holds no row that the call created.                               *)
C11_NoSessionFromChangePassword ==
    \A r \in pending :
        r.op = "change-password" =>
            ~\E s \in sessions : s.userId = r.id /\ s.token = r.token

----------------------------------------------------------------------------
(* The sessions of one user *)
SessionsOf(rows, userId) == { s \in rows : s.userId = userId }

(* C12: a change-password request whose current password is not the one    *)
(* stored, or whose new password has fewer than 6 characters, is answered  *)
(* 400 and leaves the caller's password hash and the caller's sessions as  *)
(* they were.                                                              *)
C12_FailedChangeKeepsPassword ==
    [][ (/\ resp'.op = "change-password" /\ resp'.at = now'
         /\ resp'.uid # 0
         /\ \/ users[resp'.uid].passwordHash # bcryptHash(resp'.req.cur)
            \/ Len(resp'.req.pw) < MinPasswordLength)
        => /\ resp'.http = 400
           /\ users'[resp'.uid].passwordHash = users[resp'.uid].passwordHash
           /\ SessionsOf(sessions', resp'.uid) = SessionsOf(sessions, resp'.uid)
      ]_vars

(* A wrong current password was refused while the caller held a session *)
C12_Witness ==
    /\ resp.op = "change-password" /\ Fresh
    /\ resp.http = 400
    /\ resp.uid = 2
    /\ users[2].passwordHash # bcryptHash(resp.req.cur)
    /\ Len(resp.req.pw) >= MinPasswordLength
    /\ SessionsOf(sessions, 2) # {}

----------------------------------------------------------------------------
(* The user an identifier resolves to, 0 when it resolves to none *)
Resolve(ident) ==
    LET m == MatchUsernameOrEmail(DB, ident, ident) IN
    IF m = {} THEN 0 ELSE FirstOf(m)

(* C13: a login for a user whose status is inactive or blocked is refused   *)
(* with "user disabled", whatever the password; it creates no session and  *)
(* leaves lastLoginAt, with the rest of the user table, as it was.         *)
C13_DisabledLoginRefused ==
    [][ (/\ resp'.op = "login" /\ resp'.http = 200
         /\ Resolve(resp'.req.ident) # 0
         /\ users[Resolve(resp'.req.ident)].status # "active")
        => /\ resp'.code = 401
           /\ resp'.message = MsgDisabled
           /\ resp'.token = NoToken
           /\ sessions' = sessions
           /\ users' = users
      ]_vars

(* A blocked or inactive user was refused with the correct password *)
C13_Witness ==
    /\ resp.op = "login" /\ resp.message = MsgDisabled
    /\ Resolve(resp.req.ident) = 2
    /\ users[2].status \in {"inactive", "blocked"}
    /\ bcryptCompare(resp.req.pw, users[2].passwordHash)
    /\ users[2].lastLoginAt = NoTime

----------------------------------------------------------------------------
(* C14: every login attempt that reaches UserModel.login, successful or    *)
(* not, appends exactly one row to userLoginLog; the row's success flag is *)
(* the outcome of the attempt and its userId is null (0) exactly when the  *)
(* identifier resolved to no user; rows already written never change.      *)
C14_OneAuditEntryPerAttempt ==
    [][ /\ \A i \in 1..Len(loginLogs) :
              i <= Len(loginLogs') /\ loginLogs'[i] = loginLogs[i]
        /\ (resp'.op = "login" /\ resp'.at = now' /\ resp'.http = 200) =>
              /\ Len(loginLogs') = Len(loginLogs) + 1
              /\ loginLogs'[Len(loginLogs')].success = (resp'.code = 0)
              /\ (loginLogs'[Len(loginLogs')].userId = 0)
                    <=> (Resolve(resp'.req.ident) = 0)
      ]_vars

----------------------------------------------------------------------------
LoginAttempts == PasswordCredentials \cup { <<"bob", "secret1">> }

(* C15: a failing audit write never changes what login does.  In every     *)
(* state and for every attempt, login with a failing userLoginLog write    *)
(* returns the same outcome, message, token and user as with a working     *)
(* one, writes the same sessions and users, and leaves the log untouched.  *)
C15_AuditFailureSwallowed ==
    \A c \in LoginAttempts :
        LET a == login(DB, c[1], c[2], now, TRUE)
            b == login(DB, c[1], c[2], now, FALSE)
        IN /\ b.ok = a.ok
           /\ b.message = a.message
           /\ b.token = a.token
           /\ b.uid = a.uid
           /\ b.db.sessions = a.db.sessions
           /\ b.db.users = a.db.users
           /\ b.db.loginLogs = loginLogs

(* A login went through, token and session included, with no audit row *)
C15_Witness ==
    /\ LoginSucceeded
    /\ resp.uid = 2
    /\ \E s \in sessions : s.token = resp.token
    /\ loginLogs = <<>>

----------------------------------------------------------------------------
(* Administration: POST /users, PUT /users/:id and DELETE /users/:id sent  *)
(* by users, administrators and the super administrator                    *)

AdminCredentials == { <<"root", "secret0">>, <<"bob", "secret1">> }

AdminBodies ==
    { [NoUpdate EXCEPT !.status = "active"],
      [NoUpdate EXCEPT !.status = "blocked", !.disabledRemark = "spam"],
      [NoUpdate EXCEPT !.status = "blocked"],
      [NoUpdate EXCEPT !.status = "blocked", !.disabledRemark = ""],
      [NoUpdate EXCEPT !.status = "active", !.disabledRemark = "note"],
      [NoUpdate EXCEPT !.nickname = "al"] }

NextAdmin ==
    \/ \E c \in AdminCredentials : Login(c[1], c[2], TRUE) /\ NoObs
    \/ \E t \in issued, role \in {Undef, "admin"}, st \in {Undef, "blocked"} :
          AdminCreateUser(t, "bob", "bob@x.com", "secret1", role, st, Undef)
             /\ NoObs
    \/ \E t \in issued, id \in 1..MaxUsers, b \in AdminBodies :
          AdminUpdateUser(t, id, b) /\ ObsBody(b)

SpecAdmin == InitDefault /\ [][NextAdmin]_vars

(* The role gates of PUT /users/:id and DELETE /users/:id *)

GateBodies ==
    { [NoUpdate EXCEPT !.status = "blocked", !.disabledRemark = "spam"],
      [NoUpdate EXCEPT !.nickname = "al"] }

NextGate ==
    \/ \E c \in AdminCredentials : Login(c[1], c[2], TRUE) /\ NoObs
    \/ \E t \in issued, role \in {Undef, "admin"} :
          AdminCreateUser(t, "bob", "bob@x.com", "secret1", role, Undef, Undef)
             /\ NoObs
    \/ \E t \in issued, id \in 1..MaxUsers, b \in GateBodies :
          AdminUpdateUser(t, id, b) /\ ObsBody(b)
    \/ \E t \in issued, id \in 1..MaxUsers : DeleteUser(t, id, FALSE) /\ NoObs

SpecGate == InitDefault /\ [][NextGate]_vars

(* C16: every user row has a non-empty disabledRemark exactly when its      *)
(* status is blocked.                                                      *)
C16_RemarkIffBlocked ==
    \A i \in DOMAIN users :
        Truthy(users[i].disabledRemark) <=> (users[i].status = "blocked")


BlankRemarks == {Undef, Null, ""}

(* C17: a PUT /users/:id that sets status to blocked and carries no         *)
(* non-empty disabledRemark changes no user row; unless an earlier gate    *)
(* has answered 401, 403 or 404, it is answered 400 "remark required".     *)
C17_BlockNeedsRemark ==
    [][ (/\ resp'.op = "update-user"
         /\ lastBody'.status = "blocked"
         /\ lastBody'.disabledRemark \in BlankRemarks)
        => /\ users' = users
           /\ resp'.http \in {400, 401, 403, 404}
           /\ resp'.http = 400 => resp'.message = "remark required"
      ]_vars

(* The super administrator tried to block an active user without a remark *)
C17_Witness ==
    /\ resp.op = "update-user" /\ resp.http = 400
    /\ resp.message = "remark required"
    /\ resp.uid = 1 /\ resp.req.id = 2
    /\ lastBody = [NoUpdate EXCEPT !.status = "blocked"]
    /\ 2 \in DOMAIN users /\ users[2].status = "active"

(* C18: a successful PUT /users/:id that takes a blocked user to another   *)
(* status stores null as its disabledRemark when the body carries none,    *)
(* and the remark of the body when it carries one.                         *)
C18_UnblockClearsRemark ==
    [][ (/\ resp'.op = "update-user" /\ resp'.http = 200
         /\ resp'.req.id \in DOMAIN users
         /\ users[resp'.req.id].status = "blocked"
         /\ lastBody'.status \notin {Undef, "blocked"})
        => /\ users'[resp'.req.id].status = lastBody'.status
           /\ users'[resp'.req.id].disabledRemark =
                 IF lastBody'.disabledRemark = Undef THEN Null
                 ELSE lastBody'.disabledRemark
      ]_vars

(* A user that had been refused as disabled is active again, remark gone *)
C18_Witness ==
    /\ resp.op = "update-user" /\ resp.http = 200 /\ resp.req.id = 2
    /\ lastBody = [NoUpdate EXCEPT !.status = "active"]
    /\ 2 \in DOMAIN users
    /\ users[2].status = "active" /\ users[2].disabledRemark = Null
    /\ \E i \in 1..Len(loginLogs) :
          loginLogs[i].userId = 2 /\ loginLogs[i].message = MsgDisabled

(* C19: a PUT /users/:id or DELETE /users/:id sent by a caller of role      *)
(* admin for a target of role superadmin is answered 403 and leaves the    *)
(* user, session and login-log tables as they were.                        *)
C19_AdminCannotTouchSuperadmin ==
    [][ (/\ resp'.op \in {"update-user", "delete-user"}
         /\ resp'.uid \in DOMAIN users
         /\ users[resp'.uid].role = "admin"
         /\ resp'.req.id \in DOMAIN users
         /\ users[resp'.req.id].role = "superadmin")
        => /\ resp'.http = 403
           /\ resp'.message = MsgForbidden
           /\ UNCHANGED <<users, nextId, sessions, loginLogs>>
      ]_vars

(* An administrator was refused the deletion of the super administrator *)
C19_Witness ==
    /\ resp.op = "delete-user" /\ resp.http = 403
    /\ resp.uid \in DOMAIN users /\ users[resp.uid].role = "admin"
    /\ resp.req.id = 1 /\ users[1].role = "superadmin"

(* C20: a DELETE /users/:id whose target is the caller authJWT admitted is *)
(* refused (400, or 403 for a caller of role user) and the caller's row    *)
(* and sessions stay.                                                      *)
C20_NoSelfDelete ==
    [][ (/\ resp'.op = "delete-user"
         /\ resp'.uid # 0
         /\ resp'.req.id = resp'.uid)
        => /\ resp'.http \in {400, 403}
           /\ resp'.http = 403 <=> users[resp'.uid].role = "user"
           /\ resp'.uid \in DOMAIN users'
           /\ users'[resp'.uid] = users[resp'.uid]
           /\ SessionsOf(sessions', resp'.uid) = SessionsOf(sessions, resp'.uid)
      ]_vars

(* An administrator was refused the deletion of its own account *)
C20_Witness ==
    /\ resp.op = "delete-user" /\ resp.http = 400
    /\ resp.uid = resp.req.id
    /\ resp.uid \in DOMAIN users /\ users[resp.uid].role = "admin"
    /\ SessionsOf(sessions, resp.uid) # {}

----------------------------------------------------------------------------
(* Product associations *)

ProductInfos ==
    { [id |-> <<"string", "1">>, name |-> "one"],
      [id |-> <<"number", "1">>, name |-> "one"] }

NextProducts ==
    \/ Register("alice", "alice@x.com", "secret1", Undef) /\ NoObs
    \/ \E c \in Credentials : Login(c[1], c[2], TRUE) /\ NoObs
    \/ \E t \in issued :
          AdminUpdateUser(t, 2, [NoUpdate EXCEPT !.role = "admin"]) /\ NoObs
    \/ \E t \in issued, id \in 2..(MaxUsers + 1), q \in ProductInfos :
          AddProduct(t, id, q) /\ NoObs
    \/ \E t \in issued, id \in 2..(MaxUsers + 1) :
          RemoveProduct(t, id, "1") /\ NoObs

SpecProducts == InitDefault /\ [][NextProducts]_vars

(* C21: an add or a remove that gets past the gates answers 404 for a user *)
(* that does not exist and writes nothing.  For an existing user, an add    *)
(* of an id not in the list answers 200 and appends the entry; an add of   *)
(* an id in the list answers 400 "product already linked" and a remove of  *)
(* an id not in the list answers 400 "product link not found", both        *)
(* leaving the list as it was.                                             *)
C21_ProductAssociations ==
    [][ (/\ resp'.op \in {"add-product", "remove-product"}
         /\ resp'.http \notin {401, 403})
        => LET id == resp'.req.id
               pid == resp'.req.pid
           IN
           IF id \notin DOMAIN users
           THEN /\ resp'.http = 404 /\ resp'.message = MsgUserNotFound
                /\ users' = users
           ELSE
           LET listed == pid \in ProductIdsOf(users[id].products) IN
           /\ (resp'.op = "add-product" /\ ~listed) =>
                 /\ resp'.http = 200
                 /\ Len(users'[id].products) = Len(users[id].products) + 1
                 /\ SubSeq(users'[id].products, 1, Len(users[id].products))
                       = users[id].products
                 /\ users'[id].products[Len(users'[id].products)].id = pid
           /\ (resp'.op = "add-product" /\ listed) =>
                 /\ resp'.http = 400 /\ resp'.message = MsgProductLinked
                 /\ users' = users
           /\ (resp'.op = "remove-product" /\ ~listed) =>
                 /\ resp'.http = 400 /\ resp'.message = MsgProductNotLinked
                 /\ users' = users
      ]_vars

(* A second add of a linked product was refused *)
C21_Witness ==
    /\ resp.op = "add-product" /\ resp.http = 400
    /\ resp.message = MsgProductLinked
    /\ resp.req.id \in DOMAIN users
    /\ resp.req.pid \in ProductIdsOf(users[resp.req.id].products)

----------------------------------------------------------------------------
(* C22: whatever the unit of JWT_EXPIRES_IN, the expiresAt of a session    *)
(* row is the instant at which the exp of its token passes.                *)
C22_SessionExpiryIsTokenExpiry ==
    \A s \in sessions : s.expiresAt = s.token.exp

(* C23: a successful login inserts exactly one userSession row, for the    *)
(* user that logged in; its token is the token of no other row and of no   *)
(* earlier login; rows already stored are deleted or left as they are,     *)
(* never changed.                                                          *)
C23_OneSessionUniqueToken ==
    [][ /\ \A s \in sessions' :
              s \in sessions \/ \A o \in sessions : o.token # s.token
        /\ (resp'.op = "login" /\ resp'.at = now' /\ resp'.code = 0
               /\ resp'.http = 200) =>
              /\ \E s \in sessions' \ sessions :
                    /\ sessions' = sessions \cup {s}
                    /\ s.token = resp'.token
                    /\ s.userId = resp'.uid
              /\ resp'.token \notin issued
      ]_vars

----------------------------------------------------------------------------
(* The authentication gate in front of the protected routes *)

Headers ==
    {NoHeader, EmptyBearerHeader, OtherHeader}
        \cup { BearerHeader(t) : t \in issued }
        \cup { BearerHeader(ForgedToken(t)) : t \in issued }

NextAuth ==
    \/ Register("alice", "alice@x.com", "secret1", Undef) /\ NoObs
    \/ \E c \in Credentials : Login(c[1], c[2], TRUE) /\ NoObs
    \/ \E t \in issued, st \in {"active", "inactive"} :
          AdminUpdateUser(t, 2, [NoUpdate EXCEPT !.status = st]) /\ NoObs
    \/ \E h \in Headers : GetMeAuth(h) /\ ObsAuth(h)
    \/ \E h \in Headers : LogoutAuth(h) /\ ObsAuth(h)
    \/ Tick(SecondsPerDay) /\ NoObs

SpecAuth == InitDefault /\ [][NextAuth]_vars

(* The header carries a well-signed, unexpired token of an active user     *)
(* with a stored, unexpired session row                                    *)
ValidCredential(header) ==
    /\ header.kind = "bearer"
    /\ header.token.sig = "good"
    /\ now < header.token.exp
    /\ header.token.userId \in DOMAIN users
    /\ users[header.token.userId].status = "active"
    /\ \E s \in sessions : s.token = header.token /\ now < s.expiresAt

----------------------------------------------------------------------------
(* Renaming users: PUT /users/:id with a username or an email, over a user *)
(* table of up to three rows                                               *)

Registrations == { <<"alice", "alice@x.com">>, <<"bob", "bob@x.com">> }

RenameBodies ==
    { [NoUpdate EXCEPT !.username = "bob"],
      [NoUpdate EXCEPT !.username = "alice"],
      [NoUpdate EXCEPT !.email = "bob@x.com"] }

NextRename ==
    \/ \E c \in Registrations : RegisterBegin(c[1], c[2])
    \/ \E r \in pending : RegisterEnd(r)
    \/ Login("root", "secret0", TRUE) /\ pending' = pending /\ NoObs
    \/ \E t \in issued, id \in DOMAIN users \ {1}, b \in RenameBodies :
          AdminUpdateUser(t, id, b) /\ ObsBody(b)

SpecRename == InitDefault /\ [][NextRename]_vars

HeldByAnother(id, column, value) ==
    value # Undef /\ \E j \in DOMAIN users \ {id} : users[j][column] = value

----------------------------------------------------------------------------
(* Revocation in two steps: authJWT admits the request, then the handler   *)
(* awaits UserModel.logout; other requests run in between                  *)

(* POST /auth/logout and /auth/logout-all up to next() of authJWT *)
LogoutBegin(token, all) ==
    LET a == authJWT(token)
        op == IF all THEN "logout-all" ELSE "logout"
    IN
    IF a.http # 0 THEN AuthDenied(op, token, a) /\ NoObs
    ELSE /\ HasFreeSlot
         /\ pending' = pending \cup
              {[Request(op, a.user.id, "", "", "checked", MsgOK)
                  EXCEPT !.token = token]}
         /\ UNCHANGED resp
         /\ UNCHANGED_DB
         /\ ConcFrame

(* ... and from UserModel.logout on *)
LogoutEnd(r) ==
    /\ r.op \in {"logout", "logout-all"} /\ r.state = "checked"
    /\ SetDB(logout(DB, r.id, IF r.op = "logout" THEN r.token ELSE NoToken))
    /\ Finish(r, MsgOK)
    /\ resp' = [Reply(r.op, 200, 200, MsgOK) EXCEPT !.token = r.token, !.uid = r.id]
    /\ ConcFrame

NextRevoke ==
    \/ Login("root", "secret0", TRUE) /\ pending' = pending /\ NoObs
    \/ \E t \in issued, all \in BOOLEAN : LogoutBegin(t, all)
    \/ \E r \in pending : LogoutEnd(r)
    \/ \E t \in {SecondsPerMinute, SecondsPerHour} : Tick(t) /\ NoObs

SpecRevoke == InitDefault /\ [][NextRevoke]_vars

Revoking(r) ==
    /\ r \in pending
    /\ r.op \in {"logout", "logout-all"}
    /\ r.state = "checked"
    /\ r \notin pending'

RevokedAlready(r) ==
    IF r.op = "logout"
    THEN ~ \E s \in sessions : s.userId = r.id /\ s.token = r.token
    ELSE ~ \E s \in sessions : s.userId = r.id

(* C26: a logout whose session row is already gone, and a logout-all of a  *)
(* user without sessions, is answered 200 and changes nothing in the       *)
(* store; after any revocation, revoking the same again changes nothing.   *)
C26_RevokeIdempotent ==
    [][ \A r \in pending : Revoking(r) =>
          /\ resp'.op = r.op /\ resp'.http = 200 /\ resp'.code = 200
          /\ RevokedAlready(r) =>
                <<users', nextId', sessions', loginLogs'>>
                   = <<users, nextId, sessions, loginLogs>>
          /\ LET tok == IF r.op = "logout" THEN r.token ELSE NoToken
                 after == [users |-> users', nextId |-> nextId',
                           sessions |-> sessions', loginLogs |-> loginLogs']
             IN logout(after, r.id, tok) = after
      ]_vars

(* both kinds of revocation have completed on a store that had nothing     *)
(* left to revoke, next to a session that stays                            *)
C26_Witness ==
    /\ \E r, q \in pending :
          /\ r.slot # q.slot
          /\ r.state = "done" /\ q.state = "done"
          /\ r.token = q.token
          /\ r.op = "logout"
    /\ resp.op \in {"logout", "logout-all"} /\ resp.http = 200
    /\ sessions # {}

----------------------------------------------------------------------------
(* The shape of response bodies.  A response's code field is 0 when the    *)
(* body written by the handler has no code member.                         *)

(* C27: every response body carries a numeric code and a message; a login  *)
(* that fails on its credentials is answered with status 200 and code 401. *)
C27_ResponseEnvelope ==
    resp.op # "none" =>
       /\ resp.code # 0
       /\ (resp.op = "login" /\ resp.message \in
              {MsgBadCredentials, MsgDisabled})
            => (resp.http = 200 /\ resp.code = 401)

----------------------------------------------------------------------------
(* Login in two steps: prisma.user.findFirst returns the user row, and     *)
(* everything after it works on that copy of the row while other requests  *)
(* run                                                                     *)

(* POST /auth/login up to the status check of UserModel.login *)
LoginBegin(username, password) ==
    LET m == MatchUsernameOrEmail(DB, username, username) IN
    IF m = {} \/ users[FirstOf(m)].status # "active"
    THEN Login(username, password, TRUE) /\ NoObs
    ELSE /\ HasFreeSlot
         /\ pending' = pending \cup
              {[Request("login", FirstOf(m), username, "", "resolved", MsgOK)
                  EXCEPT !.password = password] @@ [user |-> users[FirstOf(m)]]}
         /\ UNCHANGED resp
         /\ UNCHANGED_DB
         /\ ConcFrame

(* UserModel.login from bcrypt.compare on, for the row r.user read by      *)
(* findFirst.  fk: the store refuses a session or audit row whose userId   *)
(* matches no user (the schema is not part of the sources)                 *)
loginEnd(db, r, t, fk) ==
    LET token == jwtSign(r.id, r.user, t)
        gone == r.id \notin DOMAIN db.users
    IN
    IF ~bcryptCompare(r.password, r.user.passwordHash)
    THEN LoginFailure(saveLoginLog(db, r.id, r.username, FALSE, "wrong password",
                                   ~(fk /\ gone)),
                      MsgBadCredentials)
    ELSE IF SessionUniqueViolation(db, token)
    THEN LoginFailure(db, MsgUniqueConstraint)
    ELSE IF fk /\ gone
    THEN LoginFailure(db, MsgStoreFailure)
    ELSE
    LET db1 == [db EXCEPT
                  !.sessions = @ \cup {[userId |-> r.id, token |-> token,
                                        expiresAt |-> sessionExpiresAt(t)]}]
    IN
    IF gone
    THEN LoginFailure(db1, MsgStoreFailure)
    ELSE [db |-> saveLoginLog([db1 EXCEPT !.users[r.id].lastLoginAt = t],
                              r.id, r.username, TRUE, MsgOK, TRUE),
          ok |-> TRUE, message |-> MsgOK, token |-> token, uid |-> r.id]

(* ... and the reply of POST /auth/login *)
LoginEnd(r, fk) ==
    /\ r.op = "login" /\ r.state = "resolved"
    /\ LET l == loginEnd(DB, r, now, fk) IN
       /\ Fits(l.db)
       /\ SetDB(l.db)
       /\ issued' = IF l.ok THEN issued \cup {l.token} ELSE issued
       /\ pending' = (pending \ {r}) \cup
            {[r EXCEPT !.state = "done", !.result = l.message, !.token = l.token]}
       /\ resp' = [Reply("login", 200, IF l.ok THEN 0 ELSE 401, l.message) EXCEPT
                     !.token = l.token, !.uid = l.uid,
                     !.req = [NoReq EXCEPT !.ident = r.username, !.pw = r.password]]
    /\ UNCHANGED <<now, expiresIn>>
    /\ NoObs

----------------------------------------------------------------------------
(* A login racing a password change of the same user *)

NextRace ==
    \/ Login("root", "secret0", FALSE) /\ pending' = pending /\ NoObs
    \/ LoginBegin("root", "secret0")
    \/ \E r \in pending, fk \in BOOLEAN : LoginEnd(r, fk)
    \/ \E t \in issued : ChangePasswordBegin(t, "secret0", "secret2", FALSE) /\ NoObs
    \/ \E r \in pending : ChangePasswordEnd(r) /\ NoObs
    \/ \E t \in issued : GetMe(t) /\ NoObs
    \/ \E t \in {SecondsPerMinute, SecondsPerHour} : Tick(t) /\ NoObs

SpecRace == InitDefault /\ [][NextRace]_vars

(* C28: once a change of password has completed, no session that a login   *)
(* with the old password was given is admitted by authJWT.                 *)
C28_OldPasswordSessionsEnd ==
    \A c, l \in pending :
       (/\ c.op = "change-password" /\ c.state = "done" /\ c.result = MsgOK
        /\ l.op = "login" /\ l.state = "done" /\ l.result = MsgOK
        /\ l.id = c.id
        /\ l.password # c.password)
       => authJWT(l.token).http # 0

----------------------------------------------------------------------------
(* A login racing the deletion of its user *)

NextOrphan ==
    \/ Register("alice", "alice@x.com", "secret1", Undef) /\ NoObs
    \/ Login("root", "secret0", FALSE) /\ pending' = pending /\ NoObs
    \/ \E pw \in {"secret1", "secret2"} : LoginBegin("alice", pw)
    \/ \E r \in pending, fk \in BOOLEAN : LoginEnd(r, fk)
    \/ \E t \in issued : DeleteUser(t, 2, FALSE) /\ NoObs

SpecOrphan == InitDefault /\ [][NextOrphan]_vars

(* C30: every session row, and every login log row with a user id, is of a *)
(* user that exists, also when a login found its user before the user was  *)
(* deleted and goes on after.                                              *)
C30_NoOrphans ==
    /\ \A s \in sessions : s.userId \in DOMAIN users
    /\ \A i \in DOMAIN loginLogs :
          loginLogs[i].userId # 0 => loginLogs[i].userId \in DOMAIN users

----------------------------------------------------------------------------
(* The order of the lookups in authJWT *)

HasLiveSession(token) ==
    \E s \in sessions :
       s.userId = token.userId /\ s.token = token /\ s.expiresAt > now

(* C29: for a token that jwt.verify accepts, authJWT answers with the      *)
(* session message whenever the session row is missing, whatever the state *)
(* of the user, and with the user message only when the session row is     *)
(* there and has not expired.                                              *)
C29_SessionBeforeUser ==
    \A t \in issued :
       jwtVerify(t, now) = "ok" =>
          /\ ~HasLiveSession(t) => authJWT(t).message = MsgSessionInvalid
          /\ authJWT(t).message = MsgUserGoneOrDisabled => HasLiveSession(t)

----------------------------------------------------------------------------
(* The product routes in two steps: findUnique reads the list, the handler *)
(* changes its copy, and prisma.user.update writes the copy back while     *)
(* other requests run in between                                           *)

(* POST /users/:userId/products up to the push onto the copy *)
AddProductBegin(token, userId, productInfo) ==
    LET a == authJWT(token)
        r == addUserProduct(DB, userId, productInfo, now)
    IN
    IF \/ a.http # 0
       \/ ~authorizeRoles(a.user, {"admin", "user"})
       \/ (a.user.role # "admin" /\ a.user.id # userId)
       \/ r.message # MsgOK
    THEN AddProduct(token, userId, productInfo) /\ NoObs
    ELSE /\ HasFreeSlot
         /\ Len(r.db.users[userId].products) <= MaxProducts
         /\ pending' = pending \cup
              {[Request("add-product", userId, "", "", "read", MsgOK)
                  EXCEPT !.token = token]
               @@ [pid |-> productInfo.id,
                   products |-> r.db.users[userId].products]}
         /\ UNCHANGED resp
         /\ UNCHANGED_DB
         /\ ConcFrame

(* DELETE /users/:userId/products/:productId up to the filter of the copy *)
RemoveProductBegin(token, userId, productText) ==
    LET a == authJWT(token)
        r == removeUserProduct(DB, userId, <<"string", productText>>)
    IN
    IF \/ a.http # 0
       \/ ~authorizeRoles(a.user, {"admin", "user"})
       \/ (a.user.role # "admin" /\ a.user.id # userId)
       \/ r.message # MsgOK
    THEN RemoveProduct(token, userId, productText) /\ NoObs
    ELSE /\ HasFreeSlot
         /\ pending' = pending \cup
              {[Request("remove-product", userId, "", "", "read", MsgOK)
                  EXCEPT !.token = token]
               @@ [pid |-> <<"string", productText>>,
                   products |-> r.db.users[userId].products]}
         /\ UNCHANGED resp
         /\ UNCHANGED_DB
         /\ ConcFrame

(* ... and from prisma.user.update on: the copy replaces the stored list *)
ProductEnd(r) ==
    /\ r.op \in {"add-product", "remove-product"} /\ r.state = "read"
    /\ LET message == IF r.id \in DOMAIN users THEN MsgOK ELSE MsgStoreFailure IN
       /\ IF r.id \in DOMAIN users
          THEN users' = [users EXCEPT ![r.id].products = r.products]
          ELSE users' = users
       /\ Finish(r, message)
       /\ resp' = ProductReply(r.op, message, r.id, r.pid, r.token.userId)
    /\ UNCHANGED <<nextId, sessions, loginLogs>>
    /\ ConcFrame

ShelfInfos ==
    { [id |-> <<"string", "1">>, name |-> "one"],
      [id |-> <<"string", "2">>, name |-> "two"] }

NextShelf ==
    \/ Register("alice", "alice@x.com", "secret1", Undef) /\ NoObs
    \/ Login("alice", "secret1", TRUE) /\ pending' = pending /\ NoObs
    \/ \E t \in issued, q \in ShelfInfos : AddProductBegin(t, 2, q)
    \/ \E t \in issued : RemoveProductBegin(t, 2, "1")
    \/ \E r \in pending : ProductEnd(r)

SpecShelf == InitDefault /\ [][NextShelf]_vars

Acknowledged(r, op) == r.op = op /\ r.state = "done" /\ r.result = MsgOK

(* C31: with product requests of one user running concurrently, the stored *)
(* list holds no product id twice, and a product whose add was answered    *)
(* 200 is in the list unless a remove of it was answered 200.              *)
C31_NoLostProductUpdate ==
    \A u \in DOMAIN users :
       /\ \A i, j \in 1..Len(users[u].products) :
             users[u].products[i].id = users[u].products[j].id => i = j
       /\ \A r \in pending :
             (/\ Acknowledged(r, "add-product") /\ r.id = u
              /\ ~ \E q \in pending :
                      Acknowledged(q, "remove-product") /\ q.id = u /\ q.pid = r.pid)
             => r.pid \in ProductIdsOf(users[u].products)

----------------------------------------------------------------------------
(* Roles: what the admin routes accept as a role or a status, and whose    *)
(* role the gate looks at                                                  *)

RoleBodies ==
    { [NoUpdate EXCEPT !.role = r] : r \in Roles \cup {"owner"} }
       \cup { [NoUpdate EXCEPT !.status = "deleted"] }

NextRoles ==
    \/ Register("alice", "alice@x.com", "secret1", Undef) /\ NoObs
    \/ \E c \in Credentials : Login(c[1], c[2], TRUE) /\ NoObs
    \/ \E t \in issued, b \in RoleBodies :
          AdminUpdateUser(t, 2, b) /\ ObsAuth(BearerHeader(t))
    \/ \E t \in issued, r \in {Undef, "superadmin", "owner"}, name \in Usernames :
          AdminCreateUser(t, name, "bob@x.com", "secret1", r, Undef, Undef)
             /\ ObsAuth(BearerHeader(t))

SpecRoles == InitDefault /\ [][NextRoles]_vars

(* C32: every stored role is one of user, admin, superadmin and every      *)
(* stored status one of active, inactive, blocked: a create or update that *)
(* carries another value stores nothing.                                   *)
C32_ClosedEnums ==
    \A i \in DOMAIN users :
       users[i].role \in Roles /\ users[i].status \in Statuses

(* C34: a request to an admin-only route whose token authJWT admits is     *)
(* refused by authorizeRoles exactly when the role stored for the user at  *)
(* that moment is neither admin nor superadmin, whatever role was signed   *)
(* into the token.                                                         *)
C34_GateUsesStoredRole ==
    [][ (/\ resp'.op \in {"create-user", "update-user"}
         /\ resp'.at = now'
         /\ authJWT(lastAuth'.token).http = 0)
        => ((resp'.http = 403 /\ resp'.code = 0)
              <=> users[lastAuth'.token.userId].role \notin {"admin", "superadmin"})
      ]_vars

(* a token signed for role user was admitted to an admin-only route after  *)
(* the user had been made admin                                            *)
C34_Witness ==
    /\ resp.op = "create-user" /\ resp.message = MsgUsernameTaken
    /\ lastAuth.token.role = "user"
    /\ lastAuth.token.userId \in DOMAIN users
    /\ users[lastAuth.token.userId].role = "admin"

(* C35: no request of a caller whose role is admin adds an account to the  *)
(* ones that hold the role superadmin.                                     *)
C35_NoEscalationByAdmin ==
    [][ (/\ resp'.op \in {"create-user", "update-user"}
         /\ resp'.at = now'
         /\ authJWT(lastAuth'.token).http = 0
         /\ users[lastAuth'.token.userId].role = "admin")
        => { i \in DOMAIN users' : users'[i].role = "superadmin" }
              \subseteq { i \in DOMAIN users : users[i].role = "superadmin" }
      ]_vars

----------------------------------------------------------------------------
(* What a revocation leaves alone *)

NextFrame ==
    \/ Register("alice", "alice@x.com", "secret1", Undef) /\ NoObs
    \/ \E c \in Credentials : Login(c[1], c[2], TRUE) /\ NoObs
    \/ \E t \in issued : Logout(t) /\ NoObs
    \/ \E t \in issued : LogoutAll(t) /\ NoObs
    \/ Tick(SecondsPerMinute) /\ NoObs

SpecFrame == InitDefault /\ [][NextFrame]_vars

(* C33: a POST /auth/logout answered 200 removes the session rows of the   *)
(* caller with the token of the request and no other row; a POST           *)
(* /auth/logout-all answered 200 removes the session rows of the caller    *)
(* and no other row; the users and the login logs stay as they were.       *)
C33_RevokeFrame ==
    [][ (/\ resp'.op \in {"logout", "logout-all"}
         /\ resp'.at = now'
         /\ resp'.http = 200)
        => /\ sessions' =
                IF resp'.op = "logout"
                THEN { s \in sessions :
                         ~(s.userId = resp'.uid /\ s.token = resp'.token) }
                ELSE { s \in sessions : s.userId # resp'.uid }
           /\ sessions' # sessions
           /\ UNCHANGED <<users, nextId, loginLogs>>
      ]_vars

(* a single logout has left another session of the same user in place *)
C33_Witness ==
    /\ resp.op = "logout" /\ resp.http = 200 /\ Fresh
    /\ \E s \in sessions : s.userId = resp.uid /\ s.token # resp.token
    /\ ~ \E s \in sessions : s.token = resp.token

----------------------------------------------------------------------------
(* PUT /users/me: the caller's own nickname and password *)

UpdateMe(token, nickname, password) ==
    LET a == authJWT(token) IN
    IF a.http # 0 THEN AuthDenied("update-me", token, a)
    ELSE
    /\ IF Truthy(password) /\ Len(password) < MinPasswordLength
       THEN RefuseAs("update-me", 400, 400, MsgPasswordShort, a.user.id, a.user.id)
       ELSE
       LET updateData == [NoUpdate EXCEPT
                            !.nickname = nickname,
                            !.password = IF Truthy(password) THEN password ELSE Undef]
       IN
       IF updateData = NoUpdate
       THEN RefuseAs("update-me", 400, 400, "nothing to update", a.user.id, a.user.id)
       ELSE
       LET r == updateUser(DB, a.user.id, updateData) IN
       /\ SetDB(r.db)
       /\ resp' = [Reply("update-me",
                         IF r.message = MsgOK THEN 200 ELSE 400,
                         IF r.message = MsgOK THEN 0 ELSE 400, r.message) EXCEPT
                     !.uid = a.user.id, !.req.id = a.user.id,
                     !.req.pw = IF Truthy(password) THEN password ELSE ""]
    /\ UNCHANGED <<now, expiresIn, issued, pending>>

NextSelf ==
    \/ Register("alice", "alice@x.com", "secret1", Undef) /\ NoObs
    \/ \E c \in Credentials : Login(c[1], c[2], TRUE) /\ NoObs
    \/ \E t \in issued, n \in {Undef, "al"}, pw \in {Undef, "secret2", ShortPassword} :
          UpdateMe(t, n, pw) /\ NoObs
    \/ \E t \in issued : ChangePassword(t, "secret1", "secret2", TRUE) /\ NoObs
    \/ \E t \in issued : GetMe(t) /\ NoObs
    \/ Tick(SecondsPerMinute) /\ NoObs

SpecSelf == InitDefault /\ [][NextSelf]_vars

(* C36: a step that changes the stored password hash of a user, through    *)
(* PUT /users/change-password or through PUT /users/me, leaves no session  *)
(* row of that user, so that authJWT refuses every token issued to the     *)
(* user before.                                                            *)
C36_PasswordChangeRevokes ==
    [][ \A i \in DOMAIN users \cap DOMAIN users' :
          users'[i].passwordHash # users[i].passwordHash
             => \A s \in sessions' : s.userId # i
      ]_vars

----------------------------------------------------------------------------
(* Dispatch of PUT /users/<segment>.  The router tries its routes in the   *)
(* order of registration and hands the request to the first whose path     *)
(* matches; none of the handlers calls next(), so the request goes no      *)
(* further.  The handler actions above describe each handler from its      *)
(* first line on, whatever path leads to it.                               *)

(* router.put(...) of routes/user, in the order of the file *)
PutRoutes ==
    << [path |-> "me", handler |-> "update-me"],
       [path |-> ":id", handler |-> "update-user"],
       [path |-> "change-password", handler |-> "change-password"] >>

(* a path with a parameter matches every segment *)
PathMatches(path, segment) == path = ":id" \/ path = segment

dispatch(routes, segment) ==
    LET m == { i \in DOMAIN routes : PathMatches(routes[i].path, segment) } IN
    IF m = {} THEN "none" ELSE routes[FirstOf(m)].handler

DecimalIds == <<"1", "2", "3">>

(* isNaN(parseInt(segment)) and parseInt(segment), for the segments used *)
IsNaN(segment) == \A n \in DOMAIN DecimalIds : DecimalIds[n] # segment

parseInt(segment) == CHOOSE n \in DOMAIN DecimalIds : DecimalIds[n] = segment

(* PUT /users/:id from the path segment on *)
PutUserById(token, segment, body) ==
    IF ~IsNaN(segment) THEN AdminUpdateUser(token, parseInt(segment), body)
    ELSE
    LET a == authJWT(token) IN
    IF a.http # 0 THEN AuthDenied("update-user", token, a)
    ELSE /\ IF ~authorizeRoles(a.user, {"admin", "superadmin"})
            THEN RefuseAs("update-user", 403, 0, MsgForbidden, 0, a.user.id)
            ELSE RefuseAs("update-user", 400, 400, "invalid user id", 0, a.user.id)
         /\ UNCHANGED <<now, expiresIn, issued, pending>>

(* a PUT request below /users *)
PutUsers(token, segment, body) ==
    LET h == dispatch(PutRoutes, segment) IN
    /\ CASE h = "update-me" -> UpdateMe(token, body.nickname, body.password)
         [] h = "update-user" -> PutUserById(token, segment, body)
         [] h = "change-password" -> ChangePassword(token, body.cur, body.password, TRUE)
         [] OTHER -> /\ resp' = Reply("none", 404, 0, "not found")
                     /\ UNCHANGED_DB
                     /\ UNCHANGED <<now, expiresIn, issued, pending>>
    /\ ObsPath(segment)

PutBodies ==
    { [NoUpdate EXCEPT !.nickname = "al"] @@ [cur |-> Undef],
      [NoUpdate EXCEPT !.password = "secret2"] @@ [cur |-> "secret1"] }

NextDispatch ==
    \/ Register("alice", "alice@x.com", "secret1", Undef) /\ ObsPath("register")
    \/ \E c \in Credentials : Login(c[1], c[2], TRUE) /\ ObsPath("login")
    \/ \E t \in issued :
          AdminUpdateUser(t, 2, [NoUpdate EXCEPT !.role = "admin"]) /\ ObsPath("2")
    \/ \E t \in issued, seg \in {"me", "2", "change-password"}, b \in PutBodies :
          PutUsers(t, seg, b)

SpecDispatch == InitDefault /\ [][NextDispatch]_vars

(* C37: a PUT /users/change-password is answered by the change-password    *)
(* handler, for a caller of any role.                                      *)
C37_ChangePasswordReached ==
    [][ lastPath' = "change-password" => resp'.op = "change-password" ]_vars

====
